---- MODULE Spec2Model ----
(***************************************************************************)
(* Model of the multi-step tool-calling orchestrator of rust_test:         *)
(* src/src/openai/call/multi_step.rs (the loop), proposer.rs (decoding of  *)
(* the endpoint's reply), crates/app_core/.../resolver.rs (lookup, parse,  *)
(* execute), history.rs (the transcript) and tools/sample_tools.rs (the    *)
(* handlers of the catalog).                                               *)
(*                                                                         *)
(* Text is a sequence of one-character strings, so that formatting,        *)
(* serialisation and parsing are computed, not assumed.  The fixed         *)
(* Japanese literals of the source are single atoms written in ASCII       *)
(* between angle brackets.                                                 *)
(***************************************************************************)
EXTENDS Integers, Sequences, FiniteSets, TLC

(***************************************************************************)
(* Text helpers                                                            *)
(***************************************************************************)

\* Characters of the modelled alphabet in byte order (String's Ord, used by
\* serde_json's BTreeMap-backed Map for the order of object keys).
Alphabet ==
  << " ", "\"", ",", "-", "0", "1", "2", "3", "4", "5", "6", "7", "8", "9",
     ":", "X", "Y", "[", "\\", "]", "a", "e", "f", "j", "l", "m", "n", "o",
     "r", "s", "t", "u", "x", "y", "{", "}" >>

CharRank(c) ==
  IF \E i \in 1..Len(Alphabet) : Alphabet[i] = c
    THEN CHOOSE i \in 1..Len(Alphabet) : Alphabet[i] = c
    ELSE Len(Alphabet) + 1

RECURSIVE StrLess(_, _)
StrLess(a, b) ==
  IF b = <<>> THEN FALSE
  ELSE IF a = <<>> THEN TRUE
  ELSE IF Head(a) = Head(b) THEN StrLess(Tail(a), Tail(b))
  ELSE CharRank(Head(a)) < CharRank(Head(b))

Digits == <<"0", "1", "2", "3", "4", "5", "6", "7", "8", "9">>

IsDigit(c) == \E i \in 1..Len(Digits) : Digits[i] = c

DigitVal(c) == (CHOOSE i \in 1..Len(Digits) : Digits[i] = c) - 1

RECURSIVE NatToStr(_)
NatToStr(n) ==
  IF n < 10 THEN <<Digits[n + 1]>>
  ELSE NatToStr(n \div 10) \o <<Digits[(n % 10) + 1]>>

\* Display of an integer (usize in format!, i64/u64 in serde_json).
IntToStr(n) == IF n < 0 THEN <<"-">> \o NatToStr(0 - n) ELSE NatToStr(n)

(***************************************************************************)
(* serde_json::Value                                                       *)
(***************************************************************************)

JNull == [k |-> "null"]
JBool(b) == [k |-> "bool", b |-> b]
JNum(n) == [k |-> "num", n |-> n]
JStr(s) == [k |-> "str", s |-> s]
JArr(a) == [k |-> "arr", a |-> a]
\* o: a sequence of <<key, value>> pairs, keys distinct and ascending.
JObj(o) == [k |-> "obj", o |-> o]

\* Map::insert: replaces the value of an existing key, else inserts in key order.
RECURSIVE MapInsert(_, _, _)
MapInsert(o, key, val) ==
  IF o = <<>> THEN << <<key, val>> >>
  ELSE IF Head(o)[1] = key THEN << <<key, val>> >> \o Tail(o)
  ELSE IF StrLess(key, Head(o)[1]) THEN << <<key, val>> >> \o o
  ELSE <<Head(o)>> \o MapInsert(Tail(o), key, val)

\* Value::get(key) on an object; JNull stands for None here only through MapHas.
MapHas(o, key) == \E i \in 1..Len(o) : o[i][1] = key
MapGet(o, key) == o[CHOOSE i \in 1..Len(o) : o[i][1] = key][2]

(***************************************************************************)
(* Value::to_string (compact serialisation) and serde_json::from_str       *)
(***************************************************************************)

RECURSIVE EscapeStr(_)
\* Escapes of a string's content: the quote and the backslash.
EscapeStr(s) ==
  IF s = <<>> THEN <<>>
  ELSE (IF Head(s) = "\"" \/ Head(s) = "\\" THEN <<"\\", Head(s)>> ELSE <<Head(s)>>)
       \o EscapeStr(Tail(s))

QuoteStr(s) == <<"\"">> \o EscapeStr(s) \o <<"\"">>

RECURSIVE ToJsonString(_), ArrToJson(_), ObjToJson(_)
\* Display of serde_json::Value: compact JSON, object keys in map order.
ToJsonString(v) ==
  CASE v.k = "null" -> <<"n", "u", "l", "l">>
    [] v.k = "bool" -> IF v.b THEN <<"t", "r", "u", "e">> ELSE <<"f", "a", "l", "s", "e">>
    [] v.k = "num" -> IntToStr(v.n)
    [] v.k = "str" -> QuoteStr(v.s)
    [] v.k = "arr" -> <<"[">> \o ArrToJson(v.a) \o <<"]">>
    [] v.k = "obj" -> <<"{">> \o ObjToJson(v.o) \o <<"}">>

ArrToJson(a) ==
  IF a = <<>> THEN <<>>
  ELSE ToJsonString(Head(a)) \o (IF Len(a) > 1 THEN <<",">> ELSE <<>>) \o ArrToJson(Tail(a))

ObjToJson(o) ==
  IF o = <<>> THEN <<>>
  ELSE QuoteStr(Head(o)[1]) \o <<":">> \o ToJsonString(Head(o)[2])
       \o (IF Len(o) > 1 THEN <<",">> ELSE <<>>) \o ObjToJson(Tail(o))

\* Parse results: [ok |-> TRUE, v, i] with i the next unread index, or
\* [ok |-> FALSE, err, i] with i the column serde_json reports.
POk(v, i) == [ok |-> TRUE, v |-> v, i |-> i]
PErr(e, i) == [ok |-> FALSE, err |-> e, i |-> i]

IsWs(c) == c = " " \/ c = "\n" \/ c = "\t" \/ c = "\r"

RECURSIVE SkipWs(_, _)
SkipWs(s, i) == IF i <= Len(s) /\ IsWs(s[i]) THEN SkipWs(s, i + 1) ELSE i

\* parse_ident: the rest of null / true / false after its first letter.
ParseIdent(s, i, rest, v) ==
  LET n == Len(rest) IN
    IF i + n > Len(s) /\ SubSeq(s, i + 1, Len(s)) = SubSeq(rest, 1, Len(s) - i)
      THEN PErr(<<"EOF while parsing a value">>, Len(s))
    ELSE IF i + n <= Len(s) /\ SubSeq(s, i + 1, i + n) = rest THEN POk(v, i + n + 1)
    ELSE PErr(<<"expected ident">>,
              CHOOSE j \in (i + 1)..(i + n) :
                /\ (j > Len(s) \/ s[j] # rest[j - i])
                /\ \A m \in (i + 1)..(j - 1) : s[m] = rest[m - i])

RECURSIVE ParseDigits(_, _, _)
\* The digits of an integer from index i on, acc the value read so far.
ParseDigits(s, i, acc) ==
  IF i <= Len(s) /\ IsDigit(s[i]) THEN ParseDigits(s, i + 1, acc * 10 + DigitVal(s[i]))
  ELSE POk(acc, i)

\* parse_integer at the digit s[i]: a leading 0 takes no further digit.
\* (Fractions and exponents are outside the modelled grammar.)
SignedNum(d, positive) == POk(JNum(IF positive THEN d.v ELSE 0 - d.v), d.i)

ParseInteger(s, i, positive) ==
  IF i > Len(s) THEN PErr(<<"EOF while parsing a value">>, Len(s))
  ELSE IF ~IsDigit(s[i]) THEN PErr(<<"invalid number">>, i)
  ELSE IF s[i] = "0"
    THEN IF i + 1 <= Len(s) /\ IsDigit(s[i + 1]) THEN PErr(<<"invalid number">>, i + 1)
         ELSE POk(JNum(0), i + 1)
  ELSE SignedNum(ParseDigits(s, i, 0), positive)

RECURSIVE ParseStrBody(_, _, _)
\* The content of a string after its opening quote, up to the closing one.
ParseStrBody(s, i, acc) ==
  IF i > Len(s) THEN PErr(<<"EOF while parsing a string">>, Len(s))
  ELSE IF s[i] = "\"" THEN POk(acc, i + 1)
  ELSE IF s[i] = "\\"
    THEN IF i + 1 > Len(s) THEN PErr(<<"EOF while parsing a string">>, Len(s))
         ELSE IF s[i + 1] = "\"" \/ s[i + 1] = "\\"
           THEN ParseStrBody(s, i + 2, Append(acc, s[i + 1]))
         ELSE PErr(<<"invalid escape">>, i + 1)
  ELSE ParseStrBody(s, i + 1, Append(acc, s[i]))

StrValue(r) == IF r.ok THEN POk(JStr(r.v), r.i) ELSE r

RECURSIVE ParseValue(_, _), ParseValueAt(_, _), ParseArrOpen(_, _), ParseArrElems(_, _, _),
          ArrAfterElem(_, _, _), ArrSeparator(_, _, _), ArrAfterComma(_, _, _),
          ParseObjOpen(_, _), ParseObjMembers(_, _, _), ObjAfterKey(_, _, _),
          ObjColon(_, _, _, _), ObjAfterValue(_, _, _, _), ObjSeparator(_, _, _)

\* Deserializer::deserialize_any for Value, from index i0: skip whitespace,
\* then dispatch on the first character.
ParseValue(s, i0) == ParseValueAt(s, SkipWs(s, i0))

ParseValueAt(s, i) ==
  IF i > Len(s) THEN PErr(<<"EOF while parsing a value">>, Len(s))
  ELSE CASE s[i] = "n" -> ParseIdent(s, i, <<"u", "l", "l">>, JNull)
         [] s[i] = "t" -> ParseIdent(s, i, <<"r", "u", "e">>, JBool(TRUE))
         [] s[i] = "f" -> ParseIdent(s, i, <<"a", "l", "s", "e">>, JBool(FALSE))
         [] s[i] = "-" -> ParseInteger(s, i + 1, FALSE)
         [] IsDigit(s[i]) -> ParseInteger(s, i, TRUE)
         [] s[i] = "\"" -> StrValue(ParseStrBody(s, i + 1, <<>>))
         [] s[i] = "[" -> ParseArrOpen(s, SkipWs(s, i + 1))
         [] s[i] = "{" -> ParseObjOpen(s, SkipWs(s, i + 1))
         [] OTHER -> PErr(<<"expected value">>, i)

\* After "[" and whitespace: "]" or the first element.
ParseArrOpen(s, j) ==
  IF j > Len(s) THEN PErr(<<"EOF while parsing a list">>, Len(s))
  ELSE IF s[j] = "]" THEN POk(JArr(<<>>), j + 1)
  ELSE ParseArrElems(s, j, <<>>)

\* SeqAccess: one element at i, then "," and the next element, or "]".
ParseArrElems(s, i, acc) == ArrAfterElem(s, ParseValue(s, i), acc)

ArrAfterElem(s, r, acc) ==
  IF ~r.ok THEN r ELSE ArrSeparator(s, SkipWs(s, r.i), Append(acc, r.v))

ArrSeparator(s, j, acc) ==
  IF j > Len(s) THEN PErr(<<"EOF while parsing a list">>, Len(s))
  ELSE IF s[j] = "]" THEN POk(JArr(acc), j + 1)
  ELSE IF s[j] = "," THEN ArrAfterComma(s, SkipWs(s, j + 1), acc)
  ELSE PErr(<<"expected , or ]">>, j)

ArrAfterComma(s, m, acc) ==
  IF m <= Len(s) /\ s[m] = "]" THEN PErr(<<"trailing comma">>, m)
  ELSE ParseArrElems(s, m, acc)

\* After "{" and whitespace: "}" or the first member.
ParseObjOpen(s, j) ==
  IF j > Len(s) THEN PErr(<<"EOF while parsing an object">>, Len(s))
  ELSE IF s[j] = "}" THEN POk(JObj(<<>>), j + 1)
  ELSE ParseObjMembers(s, j, <<>>)

\* MapAccess: one "key": value member at i, then "," and the next member, or "}".
ParseObjMembers(s, i, acc) ==
  IF i > Len(s) THEN PErr(<<"EOF while parsing an object">>, Len(s))
  ELSE IF s[i] = "}" THEN PErr(<<"trailing comma">>, i)
  ELSE IF s[i] # "\"" THEN PErr(<<"key must be a string">>, i)
  ELSE ObjAfterKey(s, ParseStrBody(s, i + 1, <<>>), acc)

ObjAfterKey(s, key, acc) ==
  IF ~key.ok THEN key ELSE ObjColon(s, SkipWs(s, key.i), key.v, acc)

ObjColon(s, c, key, acc) ==
  IF c > Len(s) THEN PErr(<<"EOF while parsing an object">>, Len(s))
  ELSE IF s[c] # ":" THEN PErr(<<"expected :">>, c)
  ELSE ObjAfterValue(s, ParseValue(s, c + 1), key, acc)

ObjAfterValue(s, r, key, acc) ==
  IF ~r.ok THEN r ELSE ObjSeparator(s, SkipWs(s, r.i), MapInsert(acc, key, r.v))

ObjSeparator(s, j, o) ==
  IF j > Len(s) THEN PErr(<<"EOF while parsing an object">>, Len(s))
  ELSE IF s[j] = "}" THEN POk(JObj(o), j + 1)
  ELSE IF s[j] = "," THEN ParseObjMembers(s, SkipWs(s, j + 1), o)
  ELSE PErr(<<"expected , or }">>, j)

\* Deserializer::end: only whitespace may follow the value.
ParseEnd(s, r, j) ==
  IF ~r.ok THEN r
  ELSE IF j <= Len(s) THEN PErr(<<"trailing characters">>, j) ELSE r

EndOf(s, r) == ParseEnd(s, r, IF r.ok THEN SkipWs(s, r.i) ELSE 0)

\* serde_json::from_str::<Value>: one value, then only whitespace to the end.
FromStr(s) == EndOf(s, ParseValue(s, 1))

\* Display of serde_json::Error: "<message> at line 1 column <c>".
ParseErrorText(r) == r.err \o <<" at line 1 column ">> \o IntToStr(r.i)

(***************************************************************************)
(* Tool catalog                                                            *)
(***************************************************************************)

HOk(v) == [ok |-> TRUE, v |-> v]
HErr(e) == [ok |-> FALSE, err |-> e]

\* build_get_constants_tool(x, y): the handler ignores its argument.
build_get_constants_tool(x, y) ==
  [name |-> <<"get_constants">>, handler |-> "get_constants", x |-> x, y |-> y]

\* build_add_tool(): the handler reads the integers x and y of its argument.
build_add_tool == [name |-> <<"add">>, handler |-> "add", x |-> 0, y |-> 0]

\* v.get(key).and_then(|val| val.as_i64()): Some only for an integer member
\* of an object.
HasI64(v, key) == v.k = "obj" /\ MapHas(v.o, key) /\ MapGet(v.o, key).k = "num"

\* ToolDefinition::execute: runs the handler closure on the parsed argument.
execute(tool, args) ==
  IF tool.handler = "get_constants"
    THEN HOk(JObj(<< <<<<"X">>, JNum(tool.x)>>, <<<<"Y">>, JNum(tool.y)>> >>))
  ELSE IF ~HasI64(args, <<"x">>) THEN HErr(<<"Invalid or missing 'x' parameter">>)
  ELSE IF ~HasI64(args, <<"y">>) THEN HErr(<<"Invalid or missing 'y' parameter">>)
  ELSE HOk(JObj(<< <<<<"s", "u", "m">>,
                    JNum(MapGet(args.o, <<"x">>).n + MapGet(args.o, <<"y">>).n)>> >>))

(***************************************************************************)
(* Decisions, resolutions and the Resolver                                 *)
(***************************************************************************)

Text(t) == [d |-> "Text", text |-> t]
ToolCall(name, arguments) == [d |-> "ToolCall", name |-> name, arguments |-> arguments]

ModelText(t) == [r |-> "ModelText", text |-> t]
Executed(name, result) == [r |-> "Executed", name |-> name, result |-> result]
ToolNotFound(requested) == [r |-> "ToolNotFound", requested |-> requested]
ArgumentsParseError(name, raw, error) ==
  [r |-> "ArgumentsParseError", name |-> name, raw |-> raw, error |-> error]
ExecutionError(name, error) == [r |-> "ExecutionError", name |-> name, error |-> error]

is_executed(resolution) == resolution.r = "Executed"

\* Mutant of FindTool: the last entry of that name is taken.
FindTool_LastMatch(tools, name) ==
  IF \E i \in 1..Len(tools) : tools[i].name = name
    THEN CHOOSE i \in 1..Len(tools) :
           /\ tools[i].name = name
           /\ \A j \in (i + 1)..Len(tools) : tools[j].name # name
    ELSE 0

\* tools.iter().find(|d| d.name == name): index of the first match, 0 for None.
FindTool(tools, name) ==
  IF \E i \in 1..Len(tools) : tools[i].name = name
    THEN CHOOSE i \in 1..Len(tools) :
           /\ tools[i].name = name
           /\ \A j \in 1..(i - 1) : tools[j].name # name
    ELSE 0

\* Mutant of ExecutionOutcome: the handler's error text is replaced by a
\* generic one.
ExecutionOutcome_GenericError(tool, out) ==
  IF out.ok THEN Executed(tool.name, out.v)
  ELSE ExecutionError(tool.name, <<"tool execution failed">>)

\* Mutant of ExecutionOutcome: the handler's error is handed on as a result.
ExecutionOutcome_ErrorAsResult(tool, out) ==
  IF out.ok THEN Executed(tool.name, out.v) ELSE Executed(tool.name, JStr(out.err))

\* The outcome of the handler as a resolution.
ExecutionOutcome(tool, out) ==
  IF out.ok THEN Executed(tool.name, out.v) ELSE ExecutionError(tool.name, out.err)

\* Mutant of ResolveFound: arguments that do not parse are replaced by null
\* and the tool is executed.
ResolveFound_NullOnParseError(arguments, tools, idx, parsed) ==
  IF ~parsed.ok
    THEN [res |-> ExecutionOutcome(tools[idx], execute(tools[idx], JNull)),
          calls |-> << [tool |-> idx, args |-> JNull,
                        out |-> execute(tools[idx], JNull)] >>]
  ELSE [res |-> ExecutionOutcome(tools[idx], execute(tools[idx], parsed.v)),
        calls |-> << [tool |-> idx, args |-> parsed.v,
                      out |-> execute(tools[idx], parsed.v)] >>]

\* Parse the arguments for the tool found, then execute it.
ResolveFound(arguments, tools, idx, parsed) ==
  IF ~parsed.ok
    THEN [res |-> ArgumentsParseError(tools[idx].name, arguments, ParseErrorText(parsed)),
          calls |-> <<>>]
  ELSE [res |-> ExecutionOutcome(tools[idx], execute(tools[idx], parsed.v)),
        calls |-> << [tool |-> idx, args |-> parsed.v,
                      out |-> execute(tools[idx], parsed.v)] >>]

\* Mutant of ResolveLookup: the arguments are parsed before the lookup.
ResolveLookup_ParsesFirst(decision, tools, idx) ==
  IF ~FromStr(decision.arguments).ok
    THEN [res |-> ArgumentsParseError(decision.name, decision.arguments,
                                      ParseErrorText(FromStr(decision.arguments))),
          calls |-> <<>>]
  ELSE IF idx = 0 THEN [res |-> ToolNotFound(decision.name), calls |-> <<>>]
  ELSE ResolveFound(decision.arguments, tools, idx, FromStr(decision.arguments))

ResolveLookup(decision, tools, idx) ==
  IF idx = 0 THEN [res |-> ToolNotFound(decision.name), calls |-> <<>>]
  ELSE ResolveFound(decision.arguments, tools, idx, FromStr(decision.arguments))

\* Mutant of ResolveTrace: a text is looked up as if it named a tool.
ResolveTrace_TextLookedUp(decision, tools) ==
  IF decision.d = "Text"
    THEN ResolveLookup(ToolCall(decision.text, <<"{", "}">>), tools,
                       FindTool(tools, decision.text))
  ELSE ResolveLookup(decision, tools, FindTool(tools, decision.name))

\* The resolver with the handler invocations it makes: res is the
\* resolution, calls the sequence of [tool index, argument, outcome] executed.
ResolveTrace(decision, tools) ==
  IF decision.d = "Text" THEN [res |-> ModelText(decision.text), calls |-> <<>>]
  ELSE ResolveLookup(decision, tools, FindTool(tools, decision.name))

resolve_and_execute_tool_call(decision, tools) == ResolveTrace(decision, tools).res

(***************************************************************************)
(* Transcript (ConversationHistory) and the Proposer                       *)
(***************************************************************************)

SystemMsg(content) == [role |-> "system", content |-> content]
UserMsg(content) == [role |-> "user", content |-> content]
FunctionMsg(name, content) == [role |-> "function", name |-> name, content |-> content]

add_user(messages, content) == Append(messages, UserMsg(content))
\* Mutant of add_function: the turn is inserted at the front.
add_function_Prepends(messages, name, content) ==
  <<FunctionMsg(name, content)>> \o messages

add_function(messages, name, content) == Append(messages, FunctionMsg(name, content))

\* The directive of propose_tool_call ("anata wa kanketsu na nihongo de
\* kotaeru ashisutanto desu.").
ProposerSystemPrompt == <<"<You are an assistant answering in concise Japanese.>">>

\* The message list of one request: system, the per-call prompt as a user
\* message, then the history.
ProposerMessages(history, prompt) ==
  <<SystemMsg(ProposerSystemPrompt), UserMsg(prompt)>> \o history

NoChoiceText == <<"(no response)">>
EmptyContentText == <<"(empty response)">>

None == [some |-> FALSE]
Some(v) == [some |-> TRUE, v |-> v]
\* Mutant of unwrap_or: the default wins over the caller's value.
unwrap_or_AlwaysDefault(opt, default) == default

unwrap_or(opt, default) == IF opt.some THEN opt.v ELSE default

\* Mutant of DecodeResponse: a response without choices is decoded as a
\* call of a tool without name.
DecodeResponse_NoChoiceIsCall(choices) ==
  IF choices = <<>> THEN ToolCall(<<>>, <<>>)
  ELSE IF choices[1].tool_calls.some /\ choices[1].tool_calls.v # <<>>
    THEN ToolCall(choices[1].tool_calls.v[1].name, choices[1].tool_calls.v[1].arguments)
  ELSE Text(IF choices[1].content.some THEN choices[1].content.v ELSE EmptyContentText)

\* Mutant of DecodeResponse: the content of the message, when it has one,
\* wins over its tool calls.
DecodeResponse_ContentFirst(choices) ==
  IF choices = <<>> THEN Text(NoChoiceText)
  ELSE IF choices[1].content.some THEN Text(choices[1].content.v)
  ELSE IF choices[1].tool_calls.some /\ choices[1].tool_calls.v # <<>>
    THEN ToolCall(choices[1].tool_calls.v[1].name, choices[1].tool_calls.v[1].arguments)
  ELSE Text(EmptyContentText)

\* Decoding of the endpoint's response: the first choice only, its first
\* tool call if it has one, else its content.
DecodeResponse(choices) ==
  IF choices = <<>> THEN Text(NoChoiceText)
  ELSE LET message == choices[1] IN
    IF message.tool_calls.some /\ message.tool_calls.v # <<>>
      THEN ToolCall(message.tool_calls.v[1].name, message.tool_calls.v[1].arguments)
    ELSE Text(IF message.content.some THEN message.content.v ELSE EmptyContentText)

(***************************************************************************)
(* Inputs of a run                                                         *)
(***************************************************************************)

\* Largest iteration ceiling a caller passes explicitly.
MaxLoopsArg == 2

\* max_loops.unwrap_or(5)
DefaultMaxLoops == 5

Prompts == { <<"Q1">>, <<"Q2">> }

Catalogs ==
  { <<>>,
    <<build_get_constants_tool(3, 5)>>,
    <<build_get_constants_tool(3, 5), build_add_tool>>,
    <<build_get_constants_tool(3, 5), build_get_constants_tool(1, 2)>> }

ArgsEmptyObject == <<"{", "}">>
ArgsNotJson == <<"{", "n", "o", "t", " ", "j", "s", "o", "n", "}">>
ArgsXY == <<"{", "\"", "y", "\"", ":", "2", ",", " ", "\"", "x", "\"", ":", "1", "}">>
ArgTexts == {ArgsEmptyObject, ArgsNotJson, ArgsXY}

RequestedNames == { <<"get_constants">>, <<"add">>, <<"nope">> }

RequestedCalls == [name : RequestedNames, arguments : ArgTexts]

AnswerTexts == { <<"A1">>, <<"A2">> }

AssistantMessage(content, tool_calls) == [content |-> content, tool_calls |-> tool_calls]

\* Responses of the endpoint (resp.choices): no candidate; one candidate with
\* text, with neither text nor calls, with an empty call list, with one call,
\* with two calls and text; two candidates.
Responses ==
  { <<>> }
  \cup { <<AssistantMessage(Some(t), None)>> : t \in AnswerTexts }
  \cup { <<AssistantMessage(None, None)>>,
         <<AssistantMessage(Some(<<"A1">>), Some(<<>>))>> }
  \cup { <<AssistantMessage(None, Some(<<c>>))>> : c \in RequestedCalls }
  \cup { <<AssistantMessage(Some(<<"A2">>),
                            Some(<<c, ToolCall(<<"nope">>, ArgsNotJson)>>))>> :
           c \in {rc \in RequestedCalls : rc.arguments = ArgsEmptyObject} }
  \cup { <<AssistantMessage(Some(<<"A1">>), None),
           AssistantMessage(None, Some(<<ToolCall(<<"add">>, ArgsXY)>>))>> }

EndpointErrors == { <<"request timed out">>, <<"401 Unauthorized">> }

MaxLoopsArgs == {None} \cup { Some(n) : n \in 0..MaxLoopsArg }

(***************************************************************************)
(* State                                                                   *)
(***************************************************************************)

VARIABLES
  pc,                    \* "idle", "loop", "await", "done", "failed", "panicked"
  original_user_prompt,  \* argument of the call
  tools,                 \* argument of the call: the catalog
  max_loops_arg,         \* argument of the call: Option<usize>
  max_loops,             \* max_loops.unwrap_or(5)
  has_logger,            \* whether an observer was passed
  iteration,             \* loop variable of `for iteration in 1..=max_loops`
  steps,                 \* Vec<ToolResolution>
  truncated,
  history,               \* ConversationHistory.messages
  result,                \* what the call returned
  events,                \* events delivered to the observer, in order
  requests,              \* message lists sent to the endpoint, in order
  decisions,             \* decisions the Proposer returned, in order
  handler_calls,         \* handler invocations [tool, args, out], in order
  endpoint_error,        \* the error the endpoint call returned, if one did
  replies,               \* resp.choices of the endpoint's replies, in order
  resolver_call,         \* a direct call of the Resolver: arguments and return
  sink_failed,           \* the observer panicked while it was handed an event
  conv,                  \* a ConversationHistory: [system_message, messages]
  conv_ops,              \* the operations applied to conv, in order
  request_built,         \* the last request built: [model, config, req]
  app,                   \* App: [input, last_submitted, ai_answer, pending]
  prompt_chan,           \* prompts sent and not yet received by the worker
  answer_chan,           \* answers sent and not yet received by the App
  worker,                \* the worker thread: its place, its locals, its last call
  submitted,             \* prompts sent by the App, in order
  answered,              \* prompts the worker sent an answer for, in order
  files,                 \* rows of the table files of the key/value store
  db_ops,                \* the upserts and deletes made so far, in order
  db_ret,                \* the last operation of the store and what it returned
  current_mode,          \* the mode the main loop is in
  running,               \* the main loop has not left its loop
  ui_log,                \* the keys handled so far: the mode, the key, what handle_key returned
  game,                  \* the shared GAME instance of the tools (tools/rpg.rs 10-12)
  game_lock,             \* holder of the mutex around GAME: "free" or a thread
  callers,               \* per thread: position in rpg_issue_action and its locals
  rpg_calls,             \* rpg tool calls started so far
  rpg_ret,               \* value returned by the last rpg tool call that ran
  rpg_session,           \* session value under "rpg_service": the serialised RpgService
  rpg_reply,             \* last response of an /api/rpg handler
  rpg_reqs,              \* /api/rpg requests handled so far
  chat_session,          \* session value under "chat_history"
  chat_reply,            \* last response of an /api/chat handler
  chat_reqs              \* POST /api/chat: how many were made, and the pairs answered since the last clear


history_vars == <<conv, conv_ops>>
request_vars == <<request_built>>
app_vars == <<app, prompt_chan, answer_chan, worker, submitted, answered>>
db_vars == <<files, db_ops, db_ret>>
ui_vars == <<current_mode, running, ui_log>>
rpg_vars == <<game, game_lock, callers, rpg_calls, rpg_ret>>
webrpg_vars == <<rpg_session, rpg_reply, rpg_reqs>>
webchat_vars == <<chat_session, chat_reply, chat_reqs>>

\* The state of the components beside the orchestration and the Resolver.
rest_vars == <<history_vars, request_vars, app_vars, db_vars, ui_vars, rpg_vars, webrpg_vars, webchat_vars>>

vars == <<pc, original_user_prompt, tools, max_loops_arg, max_loops, has_logger,
          iteration, steps, truncated, history, result, events, requests, decisions,
          handler_calls, endpoint_error, replies, resolver_call, sink_failed,
          rest_vars>>







\* What a run of the orchestration does not touch.
outside_run == <<resolver_call, sink_failed, rest_vars>>

\* The locals of a run and its record.
run_vars == <<pc, original_user_prompt, tools, max_loops_arg, max_loops, has_logger,
              iteration, steps, truncated, history, result, events, requests,
              decisions, handler_calls, endpoint_error, replies>>

\* The frame of a component's actions: the state of everything else.
not_history ==
  <<run_vars, resolver_call, sink_failed, request_vars, app_vars, db_vars, ui_vars, rpg_vars, webrpg_vars, webchat_vars>>
not_request ==
  <<run_vars, resolver_call, sink_failed, history_vars, app_vars, db_vars, ui_vars, rpg_vars, webrpg_vars, webchat_vars>>
not_app ==
  <<run_vars, resolver_call, sink_failed, history_vars, request_vars, db_vars, ui_vars, rpg_vars, webrpg_vars, webchat_vars>>
not_db ==
  <<run_vars, resolver_call, sink_failed, history_vars, request_vars, app_vars, ui_vars, rpg_vars, webrpg_vars, webchat_vars>>
not_ui ==
  <<run_vars, resolver_call, sink_failed, history_vars, request_vars, app_vars, db_vars, rpg_vars, webrpg_vars, webchat_vars>>
not_rpg ==
  <<run_vars, resolver_call, sink_failed, history_vars, request_vars, app_vars, db_vars, ui_vars, webrpg_vars, webchat_vars>>
not_webrpg ==
  <<run_vars, resolver_call, sink_failed, history_vars, request_vars, app_vars, db_vars, ui_vars, rpg_vars, webchat_vars>>
not_webchat ==
  <<run_vars, resolver_call, sink_failed, history_vars, request_vars, app_vars, db_vars, ui_vars, rpg_vars, webrpg_vars>>

NoResult == [tag |-> "None"]
OkAnswer(final_answer, st, iterations, trunc) ==
  [tag |-> "Ok", final_answer |-> final_answer, steps |-> st,
   iterations |-> iterations, truncated |-> trunc]
ErrResult(e) == [tag |-> "Err", error |-> e]

\* if let Some(cb) = logger.as_deref_mut() { cb(&ev); }
Log(evs, ev) == IF has_logger THEN Append(evs, ev) ELSE evs

EvIterationStart(k) == [ev |-> "IterationStart", iteration |-> k]
EvProposed(k, decision) == [ev |-> "Proposed", iteration |-> k, decision |-> decision]
EvResolved(k, resolution) ==
  [ev |-> "Resolved", iteration |-> k, resolution |-> resolution]
EvHistoryFunctionAppended(k, name, res) ==
  [ev |-> "HistoryFunctionAppended", iteration |-> k, name |-> name, result |-> res]
EvFinalText(k, text) == [ev |-> "FinalText", iteration |-> k, text |-> text]
EvEarlyFailure(k, resolution) ==
  [ev |-> "EarlyFailure", iteration |-> k, resolution |-> resolution]
EvTruncated(n) == [ev |-> "Truncated", max_loops |-> n]

\* Mutant of ExecutedJsonForNext: one sentence for every failure.
ExecutedJsonForNext_Generic(resolution) == <<"<a tool call failed.>">>

\* The description of a resolution that the early-failure answer carries
\* (executed_json_for_next).
ExecutedJsonForNext(resolution) ==
  CASE resolution.r = "Executed" ->
         <<"<tool >">> \o resolution.name \o <<"< result JSON: >">>
           \o ToJsonString(resolution.result)
    [] resolution.r = "ModelText" -> <<"<model text: >">> \o resolution.text
    [] resolution.r = "ToolNotFound" ->
         <<"<requested tool >">> \o resolution.requested \o <<"< does not exist.>">>
    [] resolution.r = "ArgumentsParseError" ->
         <<"<tool >">> \o resolution.name \o <<"< argument parse failure: >">>
           \o resolution.error \o <<". RAW: ">> \o resolution.raw
    [] resolution.r = "ExecutionError" ->
         <<"<tool >">> \o resolution.name \o <<"< execution error: >">> \o resolution.error

EarlyFailureAnswer(prompt, resolution) ==
  <<"<a tool failed on the way; answering with the information so far.>", "\n",
    "<original question: >">> \o prompt \o <<"\n">> \o ExecutedJsonForNext(resolution)

TruncatedAnswer(n) ==
  <<"<max loop count (">> \o IntToStr(n)
    \o <<"<) reached; summarise the final answer from the function results so far.>">>

(***************************************************************************)
(* The RPG: rules.rs, models.rs, game.rs                                   *)
(***************************************************************************)

\* RpgRules::default().  run_success_rate (0.5) and potion_drop_rate (0.3)
\* lie strictly between 0 and 1, so gen_bool can give either value: the
\* draws below take them from BOOLEAN.
DefaultRules ==
  [player_default_max_hp |-> 30, player_default_atk |-> 5,
   player_default_potions |-> 2, player_default_gold |-> 0,
   heal_min |-> 8, heal_max |-> 15,
   enemy_templates |->
     << [name |-> "Slime", hp |-> 12, atk |-> 3, gold_reward |-> 6],
        [name |-> "Goblin", hp |-> 18, atk |-> 4, gold_reward |-> 9],
        [name |-> "Wolf", hp |-> 22, atk |-> 5, gold_reward |-> 12] >>]

\* What thread_rng gives during one call: the variance of the player's and
\* of the enemy's attack (gen_range(-1..=2), gen_range(-1..=1)), the heal
\* (gen_range(heal_min..=heal_max)), gen_bool of run and of the potion drop,
\* the index of the next enemy.  The model draws the ends of each range.
PlayerVariances == {-1, 2}
EnemyVariances == {-1, 1}
Heals == {DefaultRules.heal_min, DefaultRules.heal_max}
EnemyIndexes == 1..Len(DefaultRules.enemy_templates)

\* The draws a command can consume; the others are fixed, no code reads them.
Draws(cmd) ==
  CASE cmd = "Attack" ->
         [pv : PlayerVariances, ev : EnemyVariances, heal : {DefaultRules.heal_min},
          run : {FALSE}, drop : BOOLEAN, idx : EnemyIndexes]
    [] cmd = "Heal" ->
         [pv : {-1}, ev : EnemyVariances, heal : Heals,
          run : {FALSE}, drop : {FALSE}, idx : {1}]
    [] cmd = "Run" ->
         [pv : {-1}, ev : EnemyVariances, heal : {DefaultRules.heal_min},
          run : BOOLEAN, drop : {FALSE}, idx : EnemyIndexes]
    [] cmd = "Quit" ->
         [pv : {-1}, ev : {-1}, heal : {DefaultRules.heal_min},
          run : {FALSE}, drop : {FALSE}, idx : {1}]

Commands == {"Attack", "Heal", "Run", "Quit"}

\* Player::new_with_rules (the name is the RPG_PLAYER variable or "Hero").
Player_new_with_rules(rules) ==
  [name |-> "Hero", hp |-> rules.player_default_max_hp,
   max_hp |-> rules.player_default_max_hp, atk |-> rules.player_default_atk,
   potions |-> rules.player_default_potions, gold |-> rules.player_default_gold]

\* Enemy::random_with_rules, idx drawn by gen_range.
Enemy_random_with_rules(rules, idx) == rules.enemy_templates[idx]

\* Game::with_rules; first is the gen_bool that picks who moves first.  The
\* rules field never changes after construction and is read as the rules
\* operand of the operators below.
Game_with_rules(rules, idx, first) ==
  [player |-> Player_new_with_rules(rules),
   enemy |-> Enemy_random_with_rules(rules, idx),
   turn |-> IF first THEN "Player" ELSE "Enemy",
   battle_count |-> 1]

\* Game::new
Game_new(idx, first) == Game_with_rules(DefaultRules, idx, first)

NewGames == {Game_new(idx, first) : idx \in EnemyIndexes, first \in BOOLEAN}

\* Game::is_over
Game_is_over(g) == g.player.hp <= 0

\* Game::snapshot (the rules field of the snapshot is the constant rules).
Game_snapshot(g) ==
  [player |-> g.player, enemy |-> g.enemy, turn |-> g.turn,
   battle_count |-> g.battle_count, is_over |-> Game_is_over(g)]

\* (atk + variance).max(1)
player_attack_damage(atk, variance) ==
  IF atk + variance >= 1 THEN atk + variance ELSE 1

enemy_attack_damage(atk, variance) ==
  IF atk + variance >= 1 THEN atk + variance ELSE 1

\* Mutant of Player_heal: a player at 0 hp or less cannot drink.
Player_heal_OnlyAlive(p, rules, heal) ==
  IF p.potions <= 0 \/ p.hp <= 0 THEN p
  ELSE [p EXCEPT !.potions = @ - 1,
                 !.hp = IF @ + heal <= p.max_hp THEN @ + heal ELSE p.max_hp]

\* Player::heal: the player after the call.
Player_heal(p, rules, heal) ==
  IF p.potions <= 0 THEN p
  ELSE [p EXCEPT !.potions = @ - 1,
                 !.hp = IF @ + heal <= p.max_hp THEN @ + heal ELSE p.max_hp]

\* Game::next_battle
next_battle(g, rules, idx) ==
  [g EXCEPT !.enemy = Enemy_random_with_rules(rules, idx),
            !.turn = "Player",
            !.battle_count = @ + 1]

\* Game::victory
victory(g, rules, d) ==
  next_battle([g EXCEPT !.player.gold = @ + g.enemy.gold_reward,
                        !.player.potions = IF d.drop THEN @ + 1 ELSE @],
              rules, d.idx)

\* Game::enemy_turn
enemy_turn(g, d) ==
  IF g.player.hp - enemy_attack_damage(g.enemy.atk, d.ev) <= 0
  THEN [g EXCEPT !.player.hp = @ - enemy_attack_damage(g.enemy.atk, d.ev)]
  ELSE [g EXCEPT !.player.hp = @ - enemy_attack_damage(g.enemy.atk, d.ev),
                 !.turn = "Player"]

\* The match of Game::handle_command on a command other than Quit.
AfterPlayer(g, cmd, rules, d) ==
  CASE cmd = "Run" ->
         IF d.run THEN next_battle(g, rules, d.idx) ELSE [g EXCEPT !.turn = "Enemy"]
    [] cmd = "Heal" ->
         [g EXCEPT !.player = Player_heal(g.player, rules, d.heal), !.turn = "Enemy"]
    [] cmd = "Attack" ->
         IF g.enemy.hp - player_attack_damage(g.player.atk, d.pv) <= 0
         THEN victory([g EXCEPT !.enemy.hp = @ - player_attack_damage(g.player.atk, d.pv)],
                      rules, d)
         ELSE [g EXCEPT !.enemy.hp = @ - player_attack_damage(g.player.atk, d.pv),
                        !.turn = "Enemy"]

\* The tail of Game::handle_command: the enemy moves when it is its turn and
\* the player is alive.
AfterEnemy(g, d) ==
  IF g.turn = "Enemy" /\ g.player.hp > 0 THEN enemy_turn(g, d) ELSE g

\* Game::handle_command: the game after the call and the Ok(bool) returned.
handle_command(g, cmd, d) ==
  IF cmd = "Quit" THEN [game |-> g, cont |-> FALSE]
  ELSE [game |-> AfterEnemy(AfterPlayer(g, cmd, DefaultRules, d), d), cont |-> TRUE]

\* The threads that call the rpg tools.
Threads == {"t1", "t2"}

\* A thread outside rpg_issue_action.
IdleCaller ==
  [pc |-> "idle", cmd |-> None, cont |-> None, snap |-> None,
   applied |-> None, ret |-> None]

(***************************************************************************)
(* multi_step_tool_answer_with_logger_internal                             *)
(***************************************************************************)

Init ==
  /\ pc = "idle"
  /\ original_user_prompt = <<>>
  /\ tools = <<>>
  /\ max_loops_arg = None
  /\ max_loops = 0
  /\ has_logger = FALSE
  /\ iteration = 0
  /\ steps = <<>>
  /\ truncated = FALSE
  /\ history = <<>>
  /\ result = NoResult
  /\ events = <<>>
  /\ requests = <<>>
  /\ decisions = <<>>
  /\ handler_calls = <<>>
  /\ endpoint_error = None
  /\ replies = <<>>
  /\ resolver_call = NoResult
  /\ sink_failed = FALSE
  /\ conv = [system_message |-> None, messages |-> <<>>]
  /\ conv_ops = <<>>
  /\ request_built = NoResult
  /\ app = [input |-> <<>>, last_submitted |-> <<"<none yet>">>, ai_answer |-> None, pending |-> FALSE]
  /\ prompt_chan = <<>>
  /\ answer_chan = <<>>
  /\ worker = [pc |-> "recv", last |-> NoResult]
  /\ submitted = <<>>
  /\ answered = <<>>
  /\ files = {}
  /\ db_ops = <<>>
  /\ db_ret = NoResult
  /\ current_mode = [m |-> "Menu", selected |-> "OpenAIChat"]
  /\ running = TRUE
  /\ ui_log = <<>>
  /\ game = None
  /\ game_lock = "free"
  /\ callers = [t \in Threads |-> IdleCaller]
  /\ rpg_calls = 0
  /\ rpg_ret = NoResult
  /\ rpg_session = None
  /\ rpg_reply = NoResult
  /\ rpg_reqs = 0
  /\ chat_session = None
  /\ chat_reply = NoResult
  /\ chat_reqs = [posts |-> 0, ok |-> <<>>]

\* Entry of the call: the locals before the loop.
Call ==
  /\ pc = "idle"
  /\ \E prompt \in Prompts, catalog \in Catalogs, ml \in MaxLoopsArgs, lg \in BOOLEAN :
       /\ original_user_prompt' = prompt
       /\ tools' = catalog
       /\ max_loops_arg' = ml
       /\ max_loops' = unwrap_or(ml, DefaultMaxLoops)
       /\ has_logger' = lg
       /\ history' = add_user(<<>>, prompt)
  /\ steps' = <<>>
  /\ truncated' = FALSE
  /\ iteration' = 1
  /\ pc' = "loop"
  /\ UNCHANGED <<result, events, requests, decisions, handler_calls, endpoint_error,
                 replies, outside_run>>

\* Mutant of IterationStart: the loop runs over 1..max_loops exclusive.
IterationStart_Exclusive ==
  /\ pc = "loop"
  /\ iteration < max_loops
  /\ events' = Log(events, EvIterationStart(iteration))
  /\ requests' = Append(requests, ProposerMessages(history, <<>>))
  /\ pc' = "await"
  /\ UNCHANGED <<original_user_prompt, tools, max_loops_arg, max_loops, has_logger,
                 iteration, steps, truncated, history, result, decisions, handler_calls,
                 endpoint_error, replies, outside_run>>

\* Mutant of IterationStart: the next request is sent without waiting for
\* the reply to the one before.
IterationStart_Pipelined ==
  /\ pc \in {"loop", "await"}
  /\ iteration <= max_loops
  /\ Len(requests) < max_loops
  /\ events' = Log(events, EvIterationStart(iteration))
  /\ requests' = Append(requests, ProposerMessages(history, <<>>))
  /\ pc' = "await"
  /\ UNCHANGED <<original_user_prompt, tools, max_loops_arg, max_loops, has_logger,
                 iteration, steps, truncated, history, result, decisions, handler_calls,
                 endpoint_error, replies, outside_run>>

\* Head of an iteration: the IterationStart event, then the request to the
\* endpoint with the current history and an empty per-call prompt.
IterationStart ==
  /\ pc = "loop"
  /\ iteration <= max_loops
  /\ events' = Log(events, EvIterationStart(iteration))
  /\ requests' = Append(requests, ProposerMessages(history, <<>>))
  /\ pc' = "await"
  /\ UNCHANGED <<original_user_prompt, tools, max_loops_arg, max_loops, has_logger,
                 iteration, steps, truncated, history, result, decisions, handler_calls,
                 endpoint_error, replies, outside_run>>

\* Mutant of PropagateError: the error is swallowed into an answer.
PropagateError_Swallowed(e) == OkAnswer(e, steps, iteration, truncated)

\* `?` on the Proposer's Err(e): the same report is the call's return value.
PropagateError(e) == ErrResult(e)

\* The endpoint call fails: `?` returns the error from the orchestration.
ProposeFails ==
  /\ pc = "await"
  /\ \E e \in EndpointErrors :
       /\ endpoint_error' = Some(e)
       /\ result' = PropagateError(e)
  /\ pc' = "failed"
  /\ UNCHANGED <<original_user_prompt, tools, max_loops_arg, max_loops, has_logger,
                 iteration, steps, truncated, history, events, requests, decisions,
                 handler_calls, replies, outside_run>>

\* Mutant of DecideText: the text is also recorded as a ModelText step.
DecideText_PushesModelText(decision, evs) ==
  /\ events' = Log(evs, EvFinalText(iteration, decision.text))
  /\ steps' = Append(steps, ModelText(decision.text))
  /\ result' = OkAnswer(decision.text, Append(steps, ModelText(decision.text)),
                        iteration, truncated)
  /\ pc' = "done"
  /\ UNCHANGED <<history, iteration, handler_calls>>

\* Decision::Text: the run ends with the text as its answer.
DecideText(decision, evs) ==
  /\ events' = Log(evs, EvFinalText(iteration, decision.text))
  /\ result' = OkAnswer(decision.text, steps, iteration, truncated)
  /\ pc' = "done"
  /\ UNCHANGED <<steps, history, iteration, handler_calls>>

\* Mutant of push_step: only successful resolutions are recorded.
push_step_OnlyExecuted(st, resolution) ==
  IF resolution.r = "Executed" THEN Append(st, resolution) ELSE st

\* steps.push(resolution.clone())
push_step(st, resolution) == Append(st, resolution)

\* Mutant of FunctionContent: the description built for the answer text
\* (executed_json_for_next) is used as the content.
FunctionContent_Described(res) == <<"< result JSON: >">> \o ToJsonString(res)

\* The content of the function turn: result.to_string()
FunctionContent(res) == ToJsonString(res)

\* Mutant of DecideToolCall: a failed resolution is fed back to the model
\* and the loop goes on.
DecideToolCall_Retry(resolution, calls, evs, steps2) ==
  /\ steps' = steps2
  /\ handler_calls' = handler_calls \o calls
  /\ IF ~is_executed(resolution)
       THEN /\ history' = add_user(history, ExecutedJsonForNext(resolution))
            /\ events' = Log(evs, EvEarlyFailure(iteration, resolution))
       ELSE /\ history' = add_function(history, resolution.name,
                                       FunctionContent(resolution.result))
            /\ events' = Log(evs, EvHistoryFunctionAppended(
                                    iteration, resolution.name, resolution.result))
  /\ iteration' = iteration + 1
  /\ pc' = "loop"
  /\ UNCHANGED result

\* Decision::ToolCall, once resolved to `resolution` and pushed (steps2):
\* either the early-failure return or the function turn and the next round.
DecideToolCall(resolution, calls, evs, steps2) ==
  /\ steps' = steps2
  /\ handler_calls' = handler_calls \o calls
  /\ IF ~is_executed(resolution)
       THEN /\ events' = Log(evs, EvEarlyFailure(iteration, resolution))
            /\ result' = OkAnswer(EarlyFailureAnswer(original_user_prompt, resolution),
                                  steps2, iteration, truncated)
            /\ pc' = "done"
            /\ UNCHANGED <<history, iteration>>
       ELSE /\ history' = add_function(history, resolution.name,
                                       FunctionContent(resolution.result))
            /\ events' = Log(evs, EvHistoryFunctionAppended(
                                    iteration, resolution.name, resolution.result))
            /\ iteration' = iteration + 1
            /\ pc' = "loop"
            /\ UNCHANGED result

\* Mutant of Resolved: with an observer the call is resolved a second time
\* to build the event.
Resolved_ResolvedAgainToReport(tr, evs) ==
  DecideToolCall(tr.res, IF has_logger THEN tr.calls \o tr.calls ELSE tr.calls,
                 Log(evs, EvResolved(iteration, tr.res)), push_step(steps, tr.res))

\* Mutant of Resolved: the resolution is not reported to the observer.
Resolved_Unreported(tr, evs) ==
  DecideToolCall(tr.res, tr.calls, evs, push_step(steps, tr.res))

\* The resolution of the tool call: the Resolved event, then the push.
Resolved(tr, evs) ==
  DecideToolCall(tr.res, tr.calls, Log(evs, EvResolved(iteration, tr.res)),
                 push_step(steps, tr.res))

Proposed(decision, evs) ==
  IF decision.d = "Text" THEN DecideText(decision, evs)
  ELSE Resolved(ResolveTrace(decision, tools), evs)

\* The rest of an iteration once the Proposer has returned `decision`.
Decide(decision) ==
  /\ decisions' = Append(decisions, decision)
  /\ Proposed(decision, Log(events, EvProposed(iteration, decision)))
  /\ UNCHANGED <<original_user_prompt, tools, max_loops_arg, max_loops, has_logger,
                 truncated, requests, endpoint_error, outside_run>>

\* The endpoint answers: the reply is decoded into one decision and handled.
ProposeReturns ==
  /\ pc = "await"
  /\ \E choices \in Responses :
       /\ replies' = Append(replies, choices)
       /\ Decide(DecodeResponse(choices))

\* Mutant of Truncate: the answer is built without setting the flag.
Truncate_FlagNotSet ==
  /\ pc = "loop"
  /\ iteration > max_loops
  /\ events' = Log(events, EvTruncated(max_loops))
  /\ result' = OkAnswer(TruncatedAnswer(max_loops), steps, max_loops, truncated)
  /\ pc' = "done"
  /\ UNCHANGED <<original_user_prompt, tools, max_loops_arg, max_loops, has_logger,
                 iteration, steps, truncated, history, requests, decisions,
                 handler_calls, endpoint_error, replies, outside_run>>

\* The loop ran out of iterations.
Truncate ==
  /\ pc = "loop"
  /\ iteration > max_loops
  /\ truncated' = TRUE
  /\ events' = Log(events, EvTruncated(max_loops))
  /\ result' = OkAnswer(TruncatedAnswer(max_loops), steps, max_loops, TRUE)
  /\ pc' = "done"
  /\ UNCHANGED <<original_user_prompt, tools, max_loops_arg, max_loops, has_logger,
                 iteration, steps, history, requests, decisions, handler_calls,
                 endpoint_error, replies, outside_run>>

Next == Call \/ IterationStart \/ ProposeFails \/ ProposeReturns \/ Truncate

Spec == Init /\ [][Next]_vars

(***************************************************************************)
(* ConversationHistory: the directive is kept apart from the turns         *)
(***************************************************************************)

\* Longest sequence of operations applied to one ConversationHistory.
MaxOps == 3

AssistantMsg(content) == [role |-> "assistant", content |-> content]

len(h) == Len(h.messages)
as_slice(h) == h.messages

as_slice_with_system(h) ==
  (IF h.system_message.some THEN <<h.system_message.v>> ELSE <<>>) \o h.messages

\* One more operation on conv: the new value and the record of the call.
Applied(h, op) ==
  /\ Len(conv_ops) < MaxOps
  /\ conv' = h
  /\ conv_ops' = Append(conv_ops, op)
  /\ UNCHANGED not_history

\* Mutant of SetSystem: the directive is put in front of the turns.
SetSystem_IntoMessages ==
  \E c \in {<<"S1">>, <<"S2">>} :
    Applied([conv EXCEPT !.messages = <<SystemMsg(c)>> \o @],
            [op |-> "set_system", content |-> c])

SetSystem ==
  \E c \in {<<"S1">>, <<"S2">>} :
    Applied([conv EXCEPT !.system_message = Some(SystemMsg(c))],
            [op |-> "set_system", content |-> c])

ClearSystem ==
  Applied([conv EXCEPT !.system_message = None], [op |-> "clear_system"])

AddUser ==
  \E c \in Prompts :
    Applied([conv EXCEPT !.messages = add_user(@, c)], [op |-> "add_user", content |-> c])

AddAssistant ==
  \E c \in AnswerTexts :
    Applied([conv EXCEPT !.messages = Append(@, AssistantMsg(c))],
            [op |-> "add_assistant", content |-> c])

AddFunction ==
  \E c \in {ArgsEmptyObject} :
    Applied([conv EXCEPT !.messages = add_function(@, <<"get_constants">>, c)],
            [op |-> "add_function", name |-> <<"get_constants">>, content |-> c])

\* push(msg): any message, one of the system role included.
Push ==
  \E m \in {SystemMsg(<<"S1">>), UserMsg(<<>>)} :
    Applied([conv EXCEPT !.messages = Append(@, m)], [op |-> "push", msg |-> m])

HistorySpec ==
  Init /\ [][SetSystem \/ ClearSystem \/ AddUser \/ AddAssistant \/ AddFunction \/ Push]_vars

(***************************************************************************)
(* request_chat_completion: the token-limit field of a request             *)
(***************************************************************************)

\* Longest model identifier.
MaxModelLen == 4

RECURSIVE TextsUpTo(_, _)
TextsUpTo(chars, n) ==
  IF n = 0 THEN { <<>> }
  ELSE TextsUpTo(chars, n - 1)
       \cup { Append(t, c) : t \in TextsUpTo(chars, n - 1), c \in chars }

\* Model identifiers (config.model) and the two limits of the configuration.
ModelIds == TextsUpTo({"g", "4", "o", "O"}, MaxModelLen)
Configs ==
  { [max_tokens |-> 10000, max_completion_tokens |-> 16000],
    [max_tokens |-> 7, max_completion_tokens |-> 9] }

\* str::contains
contains(s, pat) ==
  \E i \in 1..(Len(s) - Len(pat) + 1) : SubSeq(s, i, i + Len(pat) - 1) = pat

\* Mutant of determine_token_limit_strategy: the family is read off the
\* start of the identifier.
determine_token_limit_strategy_Prefix(model) ==
  IF Len(model) >= 2 /\ SubSeq(model, 1, 2) = <<"4", "o">>
    THEN "MaxTokens" ELSE "MaxCompletionTokens"

determine_token_limit_strategy(model) ==
  IF contains(model, <<"4", "o">>) THEN "MaxTokens" ELSE "MaxCompletionTokens"

\* The two token-limit fields of the request the builder gives.
build_request_with_strategy(model, strategy, config) ==
  IF strategy = "MaxTokens"
    THEN [model |-> model, max_tokens |-> Some(config.max_tokens),
          max_completion_tokens |-> None]
    ELSE [model |-> model, max_tokens |-> None,
          max_completion_tokens |-> Some(config.max_completion_tokens)]

request_chat_completion ==
  /\ \E model \in ModelIds, config \in Configs :
       request_built' =
         [tag |-> "Ok", model |-> model, config |-> config,
          req |-> build_request_with_strategy(
                    model, determine_token_limit_strategy(model), config)]
  /\ UNCHANGED not_request

RequestSpec == Init /\ [][request_chat_completion]_vars

(***************************************************************************)
(* App and the worker thread: two channels between them                    *)
(***************************************************************************)

\* Prompts one App submits.
MaxSubmits == 2

\* Longest input typed.
MaxInputLen == 2

\* tools_defs of process_prompt; the replies below never ask for
\* read_docs_file.
WorkerTools ==
  << build_get_constants_tool(3, 5),
     [name |-> <<"read_docs_file">>, handler |-> "read_docs_file"] >>

\* Replies of the endpoint to the worker: no candidate, a text, a call of
\* get_constants, of an unknown tool, of get_constants with bad arguments.
WorkerResponses ==
  { <<>>,
    <<AssistantMessage(Some(<<"A1">>), None)>>,
    <<AssistantMessage(None, Some(<<ToolCall(<<"get_constants">>, ArgsEmptyObject)>>))>>,
    <<AssistantMessage(None, Some(<<ToolCall(<<"nope">>, ArgsEmptyObject)>>))>>,
    <<AssistantMessage(None, Some(<<ToolCall(<<"get_constants">>, ArgsNotJson)>>))>> }

\* App::push_char / KeyCode::Char
PushChar ==
  /\ Len(app.input) < MaxInputLen
  /\ \E ch \in {"a"} : app' = [app EXCEPT !.input = Append(@, ch)]
  /\ UNCHANGED <<prompt_chan, answer_chan, worker, submitted, answered, not_app>>

\* Sender::send: the message is queued while the receiver lives; once the
\* receiver is dropped the call returns Err and nothing is queued.
send(chan, msg, receiver_alive) == IF receiver_alive THEN Append(chan, msg) ELSE chan

\* Mutant of SubmitPrompt: the pending flag is not looked at.
SubmitPrompt_WhilePending ==
  /\ Len(submitted) < MaxSubmits
  /\ IF app.input # <<>>
       THEN /\ app' = [input |-> <<>>, last_submitted |-> app.input,
                       ai_answer |-> None, pending |-> TRUE]
            /\ prompt_chan' = send(prompt_chan, app.input, worker.pc # "gone")
            /\ submitted' = Append(submitted, app.input)
       ELSE UNCHANGED <<app, prompt_chan, submitted>>
  /\ UNCHANGED <<answer_chan, worker, answered, not_app>>

\* App::submit_prompt, and the same lines under KeyCode::Enter.
SubmitPrompt ==
  /\ Len(submitted) < MaxSubmits
  /\ IF app.input # <<>> /\ ~app.pending
       THEN /\ app' = [input |-> <<>>, last_submitted |-> app.input,
                       ai_answer |-> None, pending |-> TRUE]
            /\ prompt_chan' = send(prompt_chan, app.input, worker.pc # "gone")
            /\ submitted' = Append(submitted, app.input)
       ELSE UNCHANGED <<app, prompt_chan, submitted>>
  /\ UNCHANGED <<answer_chan, worker, answered, not_app>>

\* Mutant of CheckAiResponse: the answer is stored, the flag stays.
CheckAiResponse_StaysPending ==
  /\ IF answer_chan # <<>>
       THEN /\ app' = [app EXCEPT !.ai_answer = Some(Head(answer_chan))]
            /\ answer_chan' = Tail(answer_chan)
       ELSE UNCHANGED <<app, answer_chan>>
  /\ UNCHANGED <<prompt_chan, worker, submitted, answered, not_app>>

\* App::check_ai_response: rx.try_recv() takes an answer if one is there.
CheckAiResponse ==
  /\ IF answer_chan # <<>>
       THEN /\ app' = [app EXCEPT !.ai_answer = Some(Head(answer_chan)),
                                  !.pending = FALSE]
            /\ answer_chan' = Tail(answer_chan)
       ELSE UNCHANGED <<app, answer_chan>>
  /\ UNCHANGED <<prompt_chan, worker, submitted, answered, not_app>>

\* while let Ok(prompt) = rx_prompt.recv(): process_prompt starts and sends
\* the first request.
WorkerRecv ==
  /\ worker.pc = "recv"
  /\ prompt_chan # <<>>
  /\ worker' = [pc |-> "propose", prompt |-> Head(prompt_chan), replies |-> <<>>,
                calls |-> <<>>, model_calls |-> 1]
  /\ prompt_chan' = Tail(prompt_chan)
  /\ UNCHANGED <<app, answer_chan, submitted, answered, not_app>>

\* process_prompt returns `answer`: tx_answer.send(answer), back to recv().
SendAnswer(w, answer) ==
  /\ answer_chan' = Append(answer_chan, answer)
  /\ answered' = Append(answered, w.prompt)
  /\ worker' = [pc |-> "recv",
                last |-> [tag |-> "Ok", prompt |-> w.prompt, answer |-> answer,
                          replies |-> w.replies, calls |-> w.calls,
                          model_calls |-> w.model_calls]]
  /\ UNCHANGED <<app, prompt_chan, submitted, not_app>>

\* Steps 6 and 7: execute (a failed handler becomes an error object in the
\* function message), send the second request.
WorkerExecutes(w, idx, args) ==
  /\ worker' = [w EXCEPT
        !.pc = "second",
        !.calls = Append(@, [tool |-> idx, args |-> args,
                             out |-> execute(WorkerTools[idx], args)]),
        !.model_calls = @ + 1]
  /\ UNCHANGED <<app, prompt_chan, answer_chan, submitted, answered, not_app>>

\* Steps 4 and 5: look the tool up; arguments that do not parse become {}.
WorkerToolCall(w, decision, idx, parsed) ==
  IF idx = 0 THEN SendAnswer(w, <<"<unknown tool request: >">> \o decision.name)
  ELSE WorkerExecutes(w, idx, IF parsed.ok THEN parsed.v ELSE JObj(<<>>))

WorkerDecided(w, decision) ==
  IF decision.d = "Text" THEN SendAnswer(w, decision.text)
  ELSE WorkerToolCall(w, decision, FindTool(WorkerTools, decision.name),
                      FromStr(decision.arguments))

\* propose_tool_call returned a decision.
WorkerProposeReturns ==
  /\ worker.pc = "propose"
  /\ \E choices \in WorkerResponses :
       WorkerDecided([worker EXCEPT !.replies = Append(@, choices)],
                     DecodeResponse(choices))

\* propose_tool_call returned an error.
WorkerProposeFails ==
  /\ worker.pc = "propose"
  /\ SendAnswer(worker, <<"<API error (propose): >">> \o <<"request timed out">>)

\* The second request returned: the content of the first choice.
WorkerSecondReturns ==
  /\ worker.pc = "second"
  /\ \E choices \in WorkerResponses :
       SendAnswer([worker EXCEPT !.replies = Append(@, choices)],
                  IF choices # <<>> /\ choices[1].content.some
                    THEN choices[1].content.v ELSE EmptyContentText)

WorkerSecondFails ==
  /\ worker.pc = "second"
  /\ SendAnswer(worker, <<"<API error (second): >">> \o <<"request timed out">>)

\* Runtime::new().expect("tokio runtime") panics: the thread ends before its
\* loop and rx_prompt is dropped with whatever was queued on it.
WorkerPanics ==
  /\ worker.pc = "recv"
  /\ worker.last = NoResult
  /\ worker' = [pc |-> "gone", last |-> NoResult]
  /\ prompt_chan' = <<>>
  /\ UNCHANGED <<app, answer_chan, submitted, answered, not_app>>

WorkerNext ==
  \/ WorkerRecv
  \/ WorkerProposeReturns
  \/ WorkerProposeFails
  \/ WorkerSecondReturns
  \/ WorkerSecondFails

AppSpec ==
  Init /\ [][PushChar \/ SubmitPrompt \/ CheckAiResponse \/ WorkerNext]_vars

\* The worker thread keeps running, and the endpoint answers or fails.
AppFairSpec == AppSpec /\ WF_vars(WorkerNext)

\* The same with a worker thread that may fail to start; the host's loop
\* polls in every pass.
AppCrashSpec ==
  Init /\ [][PushChar \/ SubmitPrompt \/ CheckAiResponse \/ WorkerNext \/ WorkerPanics]_vars

AppCrashFairSpec == AppCrashSpec /\ WF_vars(WorkerNext) /\ WF_vars(CheckAiResponse)

(***************************************************************************)
(* The key/value store: one table, files, keyed by path                    *)
(***************************************************************************)

\* Most upserts and deletes in one run.
MaxDbOps == 3

\* Keys, stored bytes, clock readings and LIKE patterns.
Paths == { <<"a">>, <<"a", "x">>, <<"X">> }
Datas == { <<1>>, <<2, 255>> }
Times == { 1, 2 }
LikePatterns == { <<"%">>, <<"a", "%">>, <<"a", "_">>, <<"x">> }

\* SQLite's LIKE: % is any run of characters, _ is any one character, and
\* ASCII letters match without regard to case.
Lower(c) == IF c = "X" THEN "x" ELSE IF c = "Y" THEN "y" ELSE c

RECURSIVE Like(_, _)
Like(pat, text) ==
  IF pat = <<>> THEN text = <<>>
  ELSE IF Head(pat) = "%"
    THEN Like(Tail(pat), text) \/ (text # <<>> /\ Like(pat, Tail(text)))
  ELSE IF text = <<>> THEN FALSE
  ELSE /\ Head(pat) = "_" \/ Lower(Head(pat)) = Lower(Head(text))
       /\ Like(Tail(pat), Tail(text))

RowsAt(tbl, path) == { r \in tbl : r.path = path }

\* Mutant of upsert_bytes: ON CONFLICT(path) DO NOTHING.
upsert_bytes_KeepsFirst(tbl, path, data, now) ==
  IF RowsAt(tbl, path) # {} THEN tbl
  ELSE tbl \cup { [path |-> path, data |-> data, size_bytes |-> Len(data),
                   modified_at_epoch_ms |-> now] }

\* INSERT INTO files ... ON CONFLICT(path) DO UPDATE SET data, size_bytes,
\* modified_at_epoch_ms: the row of that path is replaced, or added.
upsert_bytes(tbl, path, data, now) ==
  (tbl \ RowsAt(tbl, path))
    \cup { [path |-> path, data |-> data, size_bytes |-> Len(data),
            modified_at_epoch_ms |-> now] }

\* SELECT data FROM files WHERE path = ?1, .optional(), ok_or_else.
read_bytes(tbl, path) ==
  IF RowsAt(tbl, path) = {}
    THEN [ok |-> FALSE, err |-> <<"path not found: ">> \o path]
  ELSE [ok |-> TRUE, v |-> (CHOOSE r \in RowsAt(tbl, path) : TRUE).data]

\* Mutant of delete: the answer is always true.
delete_AlwaysTrue(tbl, path) ==
  [files |-> tbl \ RowsAt(tbl, path), ret |-> TRUE]

\* DELETE FROM files WHERE path = ?1; Ok(affected > 0).
delete(tbl, path) ==
  [files |-> tbl \ RowsAt(tbl, path), ret |-> Cardinality(RowsAt(tbl, path)) > 0]

\* SELECT 1 FROM files WHERE path=?1 LIMIT 1; val.is_some().
exists(tbl, path) == RowsAt(tbl, path) # {}

\* ORDER BY path ASC.
RECURSIVE OrderByPath(_)
OrderByPath(rows) ==
  IF rows = {} THEN <<>>
  ELSE LET first == CHOOSE r \in rows : \A o \in rows : ~StrLess(o.path, r.path)
       IN <<[path |-> first.path, size_bytes |-> first.size_bytes,
             modified_at_epoch_ms |-> first.modified_at_epoch_ms]>>
            \o OrderByPath(rows \ {first})

\* SELECT path, size_bytes, modified_at_epoch_ms FROM files WHERE path LIKE ?1
\* ORDER BY path ASC.
list_files(tbl, like_pattern) ==
  OrderByPath({ r \in tbl : Like(like_pattern, r.path) })

Returned(op, arg, ret) == [tag |-> "Ret", op |-> op, arg |-> arg, ret |-> ret]

UpsertBytes ==
  /\ Len(db_ops) < MaxDbOps
  /\ \E path \in Paths, data \in Datas, now \in Times :
       /\ files' = upsert_bytes(files, path, data, now)
       /\ db_ops' = Append(db_ops, [op |-> "upsert", path |-> path, data |-> data])
       /\ db_ret' = Returned("upsert_bytes", path, [ok |-> TRUE])
  /\ UNCHANGED not_db

Delete ==
  /\ Len(db_ops) < MaxDbOps
  /\ \E path \in Paths :
       /\ files' = delete(files, path).files
       /\ db_ops' = Append(db_ops, [op |-> "delete", path |-> path])
       /\ db_ret' = Returned("delete", path, [ok |-> TRUE, v |-> delete(files, path).ret])
  /\ UNCHANGED not_db

ReadBytes ==
  /\ \E path \in Paths : db_ret' = Returned("read_bytes", path, read_bytes(files, path))
  /\ UNCHANGED <<files, db_ops, not_db>>

Exists ==
  /\ \E path \in Paths :
       db_ret' = Returned("exists", path, [ok |-> TRUE, v |-> exists(files, path)])
  /\ UNCHANGED <<files, db_ops, not_db>>

ListFiles ==
  /\ \E pat \in LikePatterns :
       db_ret' = Returned("list_files", pat, [ok |-> TRUE, v |-> list_files(files, pat)])
  /\ UNCHANGED <<files, db_ops, not_db>>

DbSpec == Init /\ [][UpsertBytes \/ Delete \/ ReadBytes \/ Exists \/ ListFiles]_vars

(***************************************************************************)
(* The terminal front end: the main loop and its modes                     *)
(***************************************************************************)

\* Most key presses in one run.
MaxKeys == 4

\* Key presses: Ctrl-c is Char('c') with the CONTROL modifier, the others
\* come without modifiers; Tab stands for every key no mode names.
Keys == { "Esc", "Enter", "Up", "Down", "Backspace", "Tab", "Ctrl-c",
          "q", "j", "k", "a", "h", "r" }

\* MenuMode::new() and the other new() of the modes.
NewMenu == [m |-> "Menu", selected |-> "OpenAIChat"]
NewChat == [m |-> "OpenAIChat"]
NewRpg == [m |-> "RpgGame"]

\* What handle_key returns: Ok(None), Ok(Some(mode)), Err(e); AppMode::Exit
\* is the mode [m |-> "Exit"].
KeyNone == [ret |-> "None"]
KeySome(mode) == [ret |-> "Some", mode |-> mode]
KeyErr == [ret |-> "Err"]
ExitMode == [m |-> "Exit"]

next(item) ==
  IF item = "OpenAIChat" THEN "RpgGame" ELSE IF item = "RpgGame" THEN "Exit"
  ELSE "OpenAIChat"

prev(item) ==
  IF item = "OpenAIChat" THEN "Exit" ELSE IF item = "RpgGame" THEN "OpenAIChat"
  ELSE "RpgGame"

\* MenuMode::handle_key: the selection after the key, and what is returned.
MenuMode_handle_key(selected, key) ==
  IF key \in {"Up", "k"} THEN [selected |-> prev(selected), out |-> KeyNone]
  ELSE IF key \in {"Down", "j"} THEN [selected |-> next(selected), out |-> KeyNone]
  ELSE IF key = "Enter"
    THEN [selected |-> selected,
          out |-> KeySome(IF selected = "OpenAIChat" THEN NewChat
                          ELSE IF selected = "RpgGame" THEN NewRpg ELSE ExitMode)]
  ELSE IF key \in {"Esc", "q"} THEN [selected |-> selected, out |-> KeySome(ExitMode)]
  ELSE [selected |-> selected, out |-> KeyNone]

\* Mutant of OpenAIChatMode_handle_key: Esc leaves the program.
OpenAIChatMode_handle_key_EscExits(key, sent) ==
  IF key \in {"Esc", "Ctrl-c"} THEN KeySome(ExitMode)
  ELSE IF key = "Enter" /\ ~sent THEN KeyErr
  ELSE KeyNone

\* OpenAIChatMode::handle_key; sent is whether self.tx.send(..) of
\* submit_prompt went through (it fails when the worker thread is gone).
OpenAIChatMode_handle_key(key, sent) ==
  IF key = "Esc" THEN KeySome(NewMenu)
  ELSE IF key = "Ctrl-c" THEN KeySome(ExitMode)
  ELSE IF key = "Enter" /\ ~sent THEN KeyErr
  ELSE KeyNone

\* RpgGameMode::parse_command on the one character typed.
parse_command(key) ==
  IF key = "a" THEN Some("Attack") ELSE IF key = "h" THEN Some("Heal")
  ELSE IF key = "r" THEN Some("Run") ELSE IF key = "q" THEN Some("Quit")
  ELSE None

\* RpgGameMode::handle_key; is_over is snapshot.is_over after the command
\* (the game draws its damage from thread_rng).
RpgGameMode_handle_key(key, is_over) ==
  IF key = "Esc" THEN KeySome(NewMenu)
  ELSE IF key \in {"Ctrl-c", "Enter", "Up", "Down", "Backspace", "Tab"} THEN KeyNone
  ELSE IF ~parse_command(key).some THEN KeyNone
  ELSE IF parse_command(key).v = "Quit" THEN KeySome(NewMenu)
  ELSE IF is_over THEN KeySome(NewMenu)
  ELSE KeyNone

\* run: what the loop does with the answer of current_mode.handle_key(key).
Handled(key, mode_after, out) ==
  /\ ui_log' = Append(ui_log, [from |-> current_mode.m, key |-> key, out |-> out])
  /\ IF out.ret = "Some" /\ out.mode = ExitMode
       THEN running' = FALSE /\ current_mode' = mode_after
     ELSE /\ running' = TRUE
          /\ current_mode' = IF out.ret = "Some" THEN out.mode
                             ELSE IF out.ret = "Err" THEN NewMenu
                             ELSE mode_after
  /\ UNCHANGED not_ui

MenuKey ==
  /\ running /\ Len(ui_log) < MaxKeys
  /\ current_mode.m = "Menu"
  /\ \E key \in Keys :
       Handled(key,
               [current_mode EXCEPT
                  !.selected = MenuMode_handle_key(current_mode.selected, key).selected],
               MenuMode_handle_key(current_mode.selected, key).out)

ChatKey ==
  /\ running /\ Len(ui_log) < MaxKeys
  /\ current_mode.m = "OpenAIChat"
  /\ \E key \in Keys, sent \in BOOLEAN :
       Handled(key, current_mode, OpenAIChatMode_handle_key(key, sent))

RpgKey ==
  /\ running /\ Len(ui_log) < MaxKeys
  /\ current_mode.m = "RpgGame"
  /\ \E key \in Keys, is_over \in BOOLEAN :
       Handled(key, current_mode, RpgGameMode_handle_key(key, is_over))

UiSpec == Init /\ [][MenuKey \/ ChatKey \/ RpgKey]_vars

(***************************************************************************)
(* Fairness: the code runs on once the awaited endpoint call has returned, *)
(* and the endpoint call returns (a reply or an error).                    *)
(***************************************************************************)

FairSpec == Spec /\ WF_vars(Next)

(***************************************************************************)
(* The Resolver called on its own, as the tests of call_tool.rs do         *)
(***************************************************************************)

\* Argument texts that are JSON: {}, {"y":2, "x":1}, null, {} in blanks, {"x":1}.
ValidArgTexts ==
  { ArgsEmptyObject, ArgsXY, <<"n", "u", "l", "l">>, <<" ", "{", "}", " ">>,
    <<"{", "\"", "x", "\"", ":", "1", "}">> }

\* Argument texts that are not: {not json}, an unclosed object, the empty text.
InvalidArgTexts == { ArgsNotJson, <<"{", "\"", "x", "\"", ":", "1">>, <<>> }

ResolverDecisions ==
  { Text(t) : t \in AnswerTexts \cup {<<>>, <<"get_constants">>} }
  \cup { ToolCall(n, a) : n \in RequestedNames \cup {<<>>},
                          a \in ValidArgTexts \cup InvalidArgTexts }

\* resolve_and_execute_tool_call(decision, tools) with its handler invocations.
Resolve ==
  /\ \E decision \in ResolverDecisions, catalog \in Catalogs :
       resolver_call' = [tag |-> "Call", decision |-> decision, tools |-> catalog,
                         res |-> ResolveTrace(decision, catalog).res,
                         calls |-> ResolveTrace(decision, catalog).calls]
  /\ UNCHANGED <<run_vars, sink_failed, rest_vars>>

ResolverSpec == Init /\ [][Resolve]_vars

(***************************************************************************)
(* An observer that panics.  cb(&ev) is called inline and nothing catches  *)
(* an unwind, so a panic in the observer leaves the call at that event:    *)
(* what ran before it has happened, nothing after it does, and the call    *)
(* returns nothing.                                                        *)
(***************************************************************************)

\* The unwind out of the call while the observer is handed the last of evs.
Unwind(evs) ==
  /\ has_logger
  /\ events' = events \o evs
  /\ sink_failed' = TRUE
  /\ pc' = "panicked"
  /\ UNCHANGED <<original_user_prompt, tools, max_loops_arg, max_loops, has_logger,
                 iteration, result, requests, endpoint_error, resolver_call, rest_vars>>

\* The events an iteration delivers once the Proposer has returned
\* `decision`, resolved to tr when it is a tool call.
IterationEvents(decision, tr) ==
  <<EvProposed(iteration, decision)>> \o
  IF decision.d = "Text" THEN <<EvFinalText(iteration, decision.text)>>
  ELSE <<EvResolved(iteration, tr.res),
         IF is_executed(tr.res)
           THEN EvHistoryFunctionAppended(iteration, tr.res.name, tr.res.result)
           ELSE EvEarlyFailure(iteration, tr.res)>>

\* The observer panics on IterationStart: the Proposer is not called.
PanicAtIterationStart ==
  /\ pc = "loop"
  /\ iteration <= max_loops
  /\ Unwind(<<EvIterationStart(iteration)>>)
  /\ UNCHANGED <<steps, truncated, history, decisions, handler_calls, replies>>

\* The observer panics on the j-th event after the Proposer returned:
\* Proposed (1) comes before the resolution, Resolved (2) after the handler
\* ran, the third event after the push and the function turn.
PanicAfterDecision(decision, tr, j) ==
  /\ j <= Len(IterationEvents(decision, tr))
  /\ Unwind(SubSeq(IterationEvents(decision, tr), 1, j))
  /\ decisions' = Append(decisions, decision)
  /\ handler_calls' = IF decision.d = "ToolCall" /\ j >= 2
                        THEN handler_calls \o tr.calls ELSE handler_calls
  /\ steps' = IF j = 3 THEN push_step(steps, tr.res) ELSE steps
  /\ history' = IF j = 3 /\ is_executed(tr.res)
                  THEN add_function(history, tr.res.name, FunctionContent(tr.res.result))
                  ELSE history
  /\ UNCHANGED truncated

PanicAfterPropose ==
  /\ pc = "await"
  /\ \E choices \in Responses, j \in 1..3 :
       /\ replies' = Append(replies, choices)
       /\ PanicAfterDecision(DecodeResponse(choices),
                             ResolveTrace(DecodeResponse(choices), tools), j)

\* The observer panics on Truncated.
PanicAtTruncated ==
  /\ pc = "loop"
  /\ iteration > max_loops
  /\ truncated' = TRUE
  /\ Unwind(<<EvTruncated(max_loops)>>)
  /\ UNCHANGED <<steps, history, decisions, handler_calls, replies>>

SinkSpec ==
  Init /\ [][Next \/ PanicAtIterationStart \/ PanicAfterPropose \/ PanicAtTruncated]_vars

(***************************************************************************)
(* Properties                                                              *)
(***************************************************************************)

Last(seq) == seq[Len(seq)]

\* The ceiling N of the run as the caller configured it.
Ceiling == IF max_loops_arg.some THEN max_loops_arg.v ELSE 5

\* The resolution the Resolver gives the i-th decision of the run.
ResolutionOf(i) == resolve_and_execute_tool_call(decisions[i], tools)

\* Iteration i ended the run: its decision was Text or its resolution was
\* not Executed.
Terminal(i) == decisions[i].d = "Text" \/ ResolutionOf(i).r # "Executed"

\* Every Proposer reply so far was a tool call that resolved to Executed.
AllExecuted == \A i \in 1..Len(decisions) : ~Terminal(i)

Done == pc = "done"

\* C1: with a ceiling N >= 1 and only tool calls that resolve to Executed,
\* the run makes exactly N Proposer calls and ends truncated with
\* iterations = N and N Executed steps; before that it is not done, and the
\* next round (or, after N rounds, the truncated return) can always be taken.
C1_AllExecutedRunsToCeiling ==
  (pc # "idle" /\ Ceiling >= 1 /\ AllExecuted /\ ~endpoint_error.some) =>
    /\ Len(requests) <= Ceiling
    /\ Done =>
         /\ Len(requests) = Ceiling
         /\ result.tag = "Ok"
         /\ result.truncated = TRUE
         /\ result.iterations = Ceiling
         /\ Len(result.steps) = Ceiling
         /\ \A i \in 1..Len(result.steps) : result.steps[i].r = "Executed"
    /\ (pc = "loop" /\ Len(decisions) < Ceiling) => ENABLED IterationStart
    /\ (Len(decisions) = Ceiling /\ ~Done) => (pc = "loop" /\ ENABLED Truncate)

C1_Witness ==
  /\ Done
  /\ Ceiling >= 2
  /\ AllExecuted
  /\ Len(decisions) = Ceiling
  /\ result.truncated

\* C2 (safety part): the run never makes more than N Proposer calls (N the
\* caller's ceiling, 5 when none is passed), and an iteration whose decision
\* is Text or whose resolution is not Executed is the last one: the run is
\* done with that iteration count and made no further Proposer call.
C2_Bounded ==
  pc # "idle" =>
    /\ Len(requests) <= Ceiling
    /\ Len(decisions) <= Len(requests)
    /\ \A i \in 1..Len(decisions) :
         Terminal(i) =>
           /\ i = Len(decisions)
           /\ Done
           /\ result.tag = "Ok"
           /\ result.iterations = i
           /\ Len(requests) = i

\* C2: within N Proposer calls every run reaches Done (or the error return
\* of a failed Proposer call), stopping at the first terminal iteration.
C2_TerminatesWithinCeiling ==
  /\ []C2_Bounded
  /\ <>(pc \in {"done", "failed"})
  /\ [](pc = "failed" => endpoint_error.some)

C2_Witness ==
  /\ Done
  /\ ~max_loops_arg.some
  /\ Len(requests) = 3
  /\ Terminal(Len(decisions))

\* C3: a result is truncated exactly when no iteration of the run was
\* terminal (no Text decision, no resolution other than Executed), and then
\* the whole budget was used; a Text decision or a failure leaves truncated
\* false, in iteration N too.
C3_TruncatedIffBudgetExhausted ==
  Done =>
    /\ result.tag = "Ok"
    /\ result.truncated <=> AllExecuted
    /\ result.truncated => (Len(requests) = Ceiling /\ result.iterations = Ceiling)

C3_Witness ==
  /\ Done
  /\ Ceiling >= 2
  /\ Len(decisions) = Ceiling
  /\ Terminal(Len(decisions))
  /\ result.truncated = FALSE

\* C4: the number of steps of a result is the number of iterations that
\* proposed a tool call; it is iterations - 1 exactly when the final
\* iteration returned Text, and iterations otherwise.
FinalIterationText == Len(decisions) > 0 /\ Last(decisions).d = "Text"

C4_StepsCountToolCalls ==
  Done =>
    /\ Len(result.steps) = Cardinality({i \in 1..Len(decisions) : decisions[i].d = "ToolCall"})
    /\ (Len(result.steps) = result.iterations - 1) <=> FinalIterationText
    /\ ~FinalIterationText => Len(result.steps) = result.iterations

C4_Witness ==
  /\ Done
  /\ FinalIterationText
  /\ Len(decisions) >= 3
  /\ Len(result.steps) = result.iterations - 1

FailureKinds == {"ToolNotFound", "ArgumentsParseError", "ExecutionError"}

\* The transcript after k - 1 successful rounds: the user turn, then one
\* function turn per step, in order.
ExpectedTranscript(k) ==
  <<UserMsg(original_user_prompt)>>
    \o [i \in 1..(k - 1) |-> FunctionMsg(steps[i].name, ToJsonString(steps[i].result))]

IsPrefix(a, b) == Len(a) <= Len(b) /\ SubSeq(b, 1, Len(a)) = a

\* C5: a tool call that resolves to ToolNotFound, ArgumentsParseError or
\* ExecutionError in iteration k is the last step of the result, the run is
\* done with iterations = k, the transcript holds no turn for it (only the
\* k - 1 earlier tool results), and no further Proposer call is ever made.
C5_FailureEndsRun ==
  \A k \in 1..Len(decisions) :
    (decisions[k].d = "ToolCall" /\ ResolutionOf(k).r \in FailureKinds) =>
      /\ k = Len(decisions)
      /\ Done
      /\ result.tag = "Ok"
      /\ result.iterations = k
      /\ Len(result.steps) = k
      /\ Last(result.steps) = ResolutionOf(k)
      /\ history = ExpectedTranscript(k)
      /\ Len(requests) = k

C5_Witness ==
  /\ Done
  /\ Len(decisions) >= 2
  /\ Last(decisions).d = "ToolCall"
  /\ Last(result.steps).r = "ArgumentsParseError"
  /\ Len(history) = Len(decisions)

\* C6: a handler invocation that returns a failure is the last one of the
\* run; its resolution is ExecutionError with the tool's name and the
\* handler's error text, and the call returns a RunResult (Ok), no error.
C6_HandlerFailureIsResolution ==
  \A j \in 1..Len(handler_calls) :
    ~handler_calls[j].out.ok =>
      /\ j = Len(handler_calls)
      /\ Done
      /\ result.tag = "Ok"
      /\ Last(result.steps) =
           ExecutionError(tools[handler_calls[j].tool].name, handler_calls[j].out.err)
      /\ ~endpoint_error.some

C6_Witness ==
  /\ Done
  /\ handler_calls # <<>>
  /\ ~Last(handler_calls).out.ok
  /\ result.tag = "Ok"
  /\ Last(result.steps).r = "ExecutionError"

TerminalEvents == {"FinalText", "EarlyFailure", "Truncated"}

\* C7: when the Proposer call of iteration k fails, the call returns exactly
\* that error and no RunResult; steps and transcript hold only what the k - 1
\* earlier rounds put there, and no terminal event has been delivered (the
\* last event is IterationStart(k)).
C7_EndpointErrorPropagates ==
  /\ endpoint_error.some <=> pc = "failed"
  /\ pc = "failed" =>
       /\ result = ErrResult(endpoint_error.v)
       /\ iteration = Len(requests)
       /\ Len(decisions) = iteration - 1
       /\ Len(steps) = iteration - 1
       /\ \A i \in 1..Len(steps) : steps[i].r = "Executed"
       /\ history = ExpectedTranscript(iteration)
       /\ \A i \in 1..Len(events) : events[i].ev \notin TerminalEvents
       /\ has_logger => Last(events) = EvIterationStart(iteration)

C7_Witness ==
  /\ pc = "failed"
  /\ iteration >= 2
  /\ has_logger
  /\ result.tag = "Err"

\* C8: the step in which the Proposer returns Text(t) in iteration k ends the
\* run with final_answer = t, iterations = k and truncated = false; steps
\* (which never holds a ModelText entry) and the transcript are unchanged.
C8_TextEndsRun ==
  [][ (Len(decisions') = Len(decisions) + 1 /\ Last(decisions').d = "Text") =>
        /\ pc' = "done"
        /\ result' = OkAnswer(Last(decisions').text, steps, Len(requests), FALSE)
        /\ steps' = steps
        /\ \A i \in 1..Len(steps') : steps'[i].r # "ModelText"
        /\ history' = history
        /\ Len(decisions') = Len(requests) ]_vars

C8_Witness ==
  /\ Done
  /\ FinalIterationText
  /\ Len(decisions) = 2
  /\ result.final_answer = Last(decisions).text
  /\ Len(result.steps) = 1

\* C9 (state part): the first turn is the original user request, and while
\* the Proposer call of iteration k is in flight the transcript is that turn
\* followed by the tool-result turns of iterations 1..k-1 in order, and it is
\* what the request carries.
C9_TranscriptShape ==
  pc # "idle" =>
    /\ history[1] = UserMsg(original_user_prompt)
    /\ pc = "await" =>
         /\ iteration = Len(requests)
         /\ Len(steps) = iteration - 1
         /\ history = ExpectedTranscript(iteration)
         /\ Last(requests) = ProposerMessages(history, <<>>)

\* C9: the transcript only grows by appending: every step leaves the turns
\* already there in place.
C9_TranscriptAppendOnly ==
  /\ []C9_TranscriptShape
  /\ [][IsPrefix(history, history')]_vars

C9_Witness ==
  /\ pc = "await"
  /\ iteration = 3
  /\ Len(history) = 3
  /\ history[3].role = "function"

\* C10: after an iteration that resolved to Executed(name, r) the last turn
\* of the transcript is the function turn of that name whose content is the
\* JSON text of r (parsing it gives back r), and it is the last message of
\* the next Proposer request.
C10_ExecutedResultIsLastTurn ==
  (Len(steps) >= 1 /\ Last(steps).r = "Executed") =>
    /\ Last(history).role = "function"
    /\ Last(history).name = Last(steps).name
    /\ Last(history).content = ToJsonString(Last(steps).result)
    /\ FromStr(Last(history).content) =
         POk(Last(steps).result, Len(Last(history).content) + 1)
    /\ (pc = "await" /\ Len(requests) = Len(steps) + 1) =>
         Last(Last(requests)) = Last(history)

C10_Witness ==
  /\ pc = "await"
  /\ Len(steps) >= 1
  /\ Last(steps) = Executed(<<"add">>, JObj(<< <<<<"s", "u", "m">>, JNum(3)>> >>))
  /\ Last(Last(requests)).content = <<"{", "\"", "s", "u", "m", "\"", ":", "3", "}">>

(***************************************************************************)
(* The Resolver                                                            *)
(***************************************************************************)

\* The catalog of the call holds a tool of the requested name.
Registered(call) == \E i \in 1..Len(call.tools) : call.tools[i].name = call.decision.name

IsToolCall(call) == call.tag = "Call" /\ call.decision.d = "ToolCall"

\* C11: a tool call whose name is in no entry of the catalog resolves to
\* ToolNotFound carrying exactly the requested name, whatever the argument
\* text is (JSON or not), and no handler is invoked.
C11_UnknownNameIsToolNotFound ==
  (IsToolCall(resolver_call) /\ ~Registered(resolver_call)) =>
    /\ resolver_call.res = ToolNotFound(resolver_call.decision.name)
    /\ resolver_call.calls = <<>>

C11_Witness ==
  /\ IsToolCall(resolver_call)
  /\ resolver_call.tools # <<>>
  /\ ~Registered(resolver_call)
  /\ resolver_call.decision.arguments = ArgsNotJson
  /\ resolver_call.res.r = "ToolNotFound"

\* C12: a tool call whose name is in the catalog and whose argument text is
\* not JSON resolves to ArgumentsParseError with the tool's name and the
\* argument text as it was given, and no handler is invoked.
C12_BadArgumentsAreParseError ==
  (/\ IsToolCall(resolver_call)
   /\ Registered(resolver_call)
   /\ resolver_call.decision.arguments \in InvalidArgTexts) =>
    /\ resolver_call.res.r = "ArgumentsParseError"
    /\ resolver_call.res.name = resolver_call.decision.name
    /\ \E i \in 1..Len(resolver_call.tools) :
         resolver_call.tools[i].name = resolver_call.res.name
    /\ resolver_call.res.raw = resolver_call.decision.arguments
    /\ resolver_call.calls = <<>>

C12_Witness ==
  /\ IsToolCall(resolver_call)
  /\ Registered(resolver_call)
  /\ resolver_call.decision.arguments = ArgsNotJson
  /\ resolver_call.res.r = "ArgumentsParseError"
  /\ resolver_call.res.raw = ArgsNotJson

ResolutionKinds ==
  {"ModelText", "Executed", "ToolNotFound", "ArgumentsParseError", "ExecutionError"}

\* The one handler invocation of the call succeeded.
HandlerSucceeded(call) == Len(call.calls) = 1 /\ call.calls[1].out.ok

\* The one handler invocation of the call failed.
HandlerFailed(call) == Len(call.calls) = 1 /\ ~call.calls[1].out.ok

\* C13: every decision and catalog gets exactly one of the five kinds of
\* resolution, and Executed(name, v) exactly when the name is in the catalog,
\* the arguments are JSON and the handler returned success with v.
C13_ResolverTotalAndDisjoint ==
  resolver_call.tag = "Call" =>
    /\ resolver_call.res.r \in ResolutionKinds
    /\ Len(resolver_call.calls) <= 1
    /\ resolver_call.res.r = "ModelText" <=> resolver_call.decision.d = "Text"
    /\ resolver_call.res.r = "ToolNotFound" <=>
         (IsToolCall(resolver_call) /\ ~Registered(resolver_call))
    /\ resolver_call.res.r = "ArgumentsParseError" <=>
         (/\ IsToolCall(resolver_call)
          /\ Registered(resolver_call)
          /\ resolver_call.decision.arguments \in InvalidArgTexts)
    /\ resolver_call.res.r = "ExecutionError" <=>
         (/\ IsToolCall(resolver_call)
          /\ Registered(resolver_call)
          /\ resolver_call.decision.arguments \in ValidArgTexts
          /\ HandlerFailed(resolver_call))
    /\ resolver_call.res.r = "Executed" <=>
         (/\ IsToolCall(resolver_call)
          /\ Registered(resolver_call)
          /\ resolver_call.decision.arguments \in ValidArgTexts
          /\ HandlerSucceeded(resolver_call))
    /\ resolver_call.res.r = "Executed" =>
         resolver_call.res = Executed(resolver_call.decision.name,
                                      resolver_call.calls[1].out.v)

C13_Witness ==
  /\ IsToolCall(resolver_call)
  /\ resolver_call.decision.name = <<"add">>
  /\ resolver_call.decision.arguments = ArgsXY
  /\ resolver_call.res = Executed(<<"add">>, JObj(<< <<<<"s", "u", "m">>, JNum(3)>> >>))

\* C14: a text decision resolves to ModelText of the same text for every
\* catalog, the empty one included, and no handler is invoked.
C14_TextPassesThrough ==
  (resolver_call.tag = "Call" /\ resolver_call.decision.d = "Text") =>
    /\ resolver_call.res = ModelText(resolver_call.decision.text)
    /\ resolver_call.calls = <<>>

C14_Witness ==
  /\ resolver_call.tag = "Call"
  /\ resolver_call.decision = Text(<<"get_constants">>)
  /\ resolver_call.tools # <<>>
  /\ resolver_call.res = ModelText(<<"get_constants">>)

(***************************************************************************)
(* Events                                                                  *)
(***************************************************************************)

\* Reads evs from position i as rounds k, k + 1, ...: the name of the ending
\* the events have, "malformed" when they are not full rounds and one ending.
RECURSIVE RunEnding(_, _, _)
RunEnding(evs, i, k) ==
  IF i > Len(evs) THEN "malformed"
  ELSE IF evs[i].ev = "Truncated"
    THEN IF i = Len(evs) /\ evs[i].max_loops = k - 1 THEN "Truncated" ELSE "malformed"
  ELSE IF i + 2 > Len(evs) \/ evs[i] # EvIterationStart(k) THEN "malformed"
  ELSE IF evs[i + 1] # EvProposed(k, decisions[k]) THEN "malformed"
  ELSE IF evs[i + 2].ev = "FinalText"
    THEN IF i + 2 = Len(evs) /\ evs[i + 2].iteration = k THEN "FinalText"
         ELSE "malformed"
  ELSE IF i + 3 > Len(evs) \/ evs[i + 2].ev # "Resolved" THEN "malformed"
  ELSE IF evs[i + 2].iteration # k THEN "malformed"
  ELSE IF evs[i + 3].ev = "EarlyFailure"
    THEN IF i + 3 = Len(evs) /\ evs[i + 3].iteration = k THEN "EarlyFailure"
         ELSE "malformed"
  ELSE IF evs[i + 3].ev = "HistoryFunctionAppended" /\ evs[i + 3].iteration = k
    THEN RunEnding(evs, i + 4, k + 1)
  ELSE "malformed"

\* The ending named is the way the run ended.
EndingMatches(ending) ==
  /\ ending \in TerminalEvents
  /\ ending = "FinalText" =>
       /\ FinalIterationText
       /\ ~result.truncated
       /\ Last(events) = EvFinalText(result.iterations, result.final_answer)
  /\ ending = "EarlyFailure" =>
       /\ ~FinalIterationText
       /\ ~result.truncated
       /\ result.steps # <<>>
       /\ Last(events) = EvEarlyFailure(result.iterations, Last(result.steps))
       /\ Last(result.steps).r \in FailureKinds
  /\ ending = "Truncated" =>
       /\ result.truncated
       /\ Last(events) = EvTruncated(Ceiling)
       /\ Len(events) = 4 * Ceiling + 1

\* C15: the events of a run that returned an answer are full rounds
\* IterationStart(k), Proposed(k), Resolved(k), HistoryFunctionAppended(k)
\* for k = 1, 2, ..., followed by one ending: IterationStart, Proposed,
\* FinalText; or IterationStart, Proposed, Resolved, EarlyFailure; or
\* Truncated(N) alone.  The terminal event is the last one and tells how
\* the run ended.
C15_EventGrammar == (Done /\ has_logger) => EndingMatches(RunEnding(events, 1, 1))

C15_Witness ==
  /\ Done
  /\ has_logger
  /\ Len(events) = 8
  /\ events[4].ev = "HistoryFunctionAppended"
  /\ Last(events).ev = "EarlyFailure"

\* What a run without observer has done when it returns, given the
\* decisions the Proposer returned and the endpoint error, if any: its
\* requests, handler invocations and return value.  k is the iteration,
\* acc what the earlier iterations left.
SilentStart == [steps |-> <<>>, history |-> <<UserMsg(original_user_prompt)>>,
                requests |-> <<>>, calls |-> <<>>]

SilentEnd(requests_sent, calls_made, res) ==
  [requests |-> requests_sent, calls |-> calls_made, result |-> res]

RECURSIVE SilentRun(_, _)
SilentToolCall(k, acc, sent, tr) ==
  IF tr.res.r = "Executed"
    THEN SilentRun(k + 1,
                   [steps |-> Append(acc.steps, tr.res),
                    history |-> Append(acc.history,
                                       FunctionMsg(tr.res.name, ToJsonString(tr.res.result))),
                    requests |-> sent,
                    calls |-> acc.calls \o tr.calls])
  ELSE SilentEnd(sent, acc.calls \o tr.calls,
                 OkAnswer(EarlyFailureAnswer(original_user_prompt, tr.res),
                          Append(acc.steps, tr.res), k, FALSE))

SilentProposed(k, acc, sent) ==
  IF k > Len(decisions)
    THEN SilentEnd(sent, acc.calls,
                   IF endpoint_error.some THEN ErrResult(endpoint_error.v) ELSE NoResult)
  ELSE IF decisions[k].d = "Text"
    THEN SilentEnd(sent, acc.calls, OkAnswer(decisions[k].text, acc.steps, k, FALSE))
  ELSE SilentToolCall(k, acc, sent, ResolveTrace(decisions[k], tools))

SilentRun(k, acc) ==
  IF k > Ceiling
    THEN SilentEnd(acc.requests, acc.calls,
                   OkAnswer(TruncatedAnswer(Ceiling), acc.steps, Ceiling, TRUE))
  ELSE SilentProposed(k, acc,
                      Append(acc.requests,
                             <<SystemMsg(ProposerSystemPrompt), UserMsg(<<>>)>> \o acc.history))

\* C16: events do not steer the run.  Whether an observer is attached or
\* not, a run that has returned has made the Proposer calls and handler
\* invocations, and returned the value, that follow from the Proposer's
\* replies alone.
C16_EventsDoNotSteer ==
  pc \in {"done", "failed"} =>
    SilentEnd(requests, handler_calls, result) = SilentRun(1, SilentStart)

C16_Witness ==
  /\ Done
  /\ has_logger
  /\ Len(events) > 4
  /\ handler_calls # <<>>
  /\ SilentEnd(requests, handler_calls, result) = SilentRun(1, SilentStart)

\* C17: a failure inside the observer does not affect the orchestration:
\* the run goes on and returns what it returns when the observer succeeds.
C17_SinkFailureIsHarmless ==
  sink_failed =>
    /\ pc \in {"loop", "await", "done", "failed"}
    /\ pc \in {"done", "failed"} => result = SilentRun(1, SilentStart).result

\* The observer panicked on the first event and the call unwound before
\* any Proposer call.
C17_Witness ==
  /\ sink_failed
  /\ pc = "panicked"
  /\ events = <<EvIterationStart(1)>>
  /\ requests = <<>>
  /\ result = NoResult

(***************************************************************************)
(* Order of the rounds                                                     *)
(***************************************************************************)

\* Proposer calls made and not yet returned.
ProposerCallsInProgress ==
  Len(requests) - Len(replies) - (IF endpoint_error.some THEN 1 ELSE 0)

\* A Proposer call starts: none is in progress, every earlier round is
\* resolved to Executed and pushed, and the request carries the function
\* turn of the round before as its last message.
ProposerCallStarts ==
  /\ Len(requests') = Len(requests) + 1
  /\ ProposerCallsInProgress = 0
  /\ Len(steps) = Len(requests)
  /\ Len(decisions) = Len(requests)
  /\ \A i \in 1..Len(steps) : steps[i].r = "Executed"
  /\ Len(requests) >= 1 =>
       Last(Last(requests')) = FunctionMsg(Last(steps).name, ToJsonString(Last(steps).result))
  /\ handler_calls' = handler_calls

\* A handler runs: between the return of the one Proposer call in progress
\* and anything else, and only one handler.
HandlerRuns ==
  /\ Len(handler_calls') = Len(handler_calls) + 1
  /\ ProposerCallsInProgress = 1
  /\ ProposerCallsInProgress' = 0
  /\ requests' = requests

\* C18: the rounds are strictly sequential.  The Proposer call of round
\* k + 1 starts only when round k has been resolved and its result appended
\* to the transcript, and never is more than one Proposer call or handler
\* invocation in progress.
C18_RoundsAreSequential ==
  /\ [](ProposerCallsInProgress \in {0, 1})
  /\ [][/\ requests' # requests => ProposerCallStarts
        /\ handler_calls' # handler_calls => HandlerRuns]_vars

C18_Witness ==
  /\ pc = "await"
  /\ Len(requests) = 3
  /\ Len(handler_calls) = 2
  /\ ProposerCallsInProgress = 1

(***************************************************************************)
(* The Proposer's decoding of a reply                                      *)
(***************************************************************************)

\* C19: a reply without candidates is decoded to the placeholder text; the
\* run returns it as final_answer with truncated = false in that iteration
\* and adds no step for it.
C19_NoCandidateEndsWithPlaceholder ==
  \A k \in 1..Len(replies) :
    replies[k] = <<>> =>
      /\ decisions[k] = Text(NoChoiceText)
      /\ k = Len(replies)
      /\ Done
      /\ ~endpoint_error.some
      /\ result = OkAnswer(NoChoiceText, steps, k, FALSE)
      /\ Len(result.steps) = k - 1
      /\ \A i \in 1..Len(result.steps) : result.steps[i].r = "Executed"

C19_Witness ==
  /\ Len(replies) = 2
  /\ replies[2] = <<>>
  /\ result.tag = "Ok"
  /\ result.final_answer = NoChoiceText
  /\ Len(result.steps) = 1

\* The tool calls the message requests, none when it has no list.
RequestedToolCalls(message) ==
  IF message.tool_calls.some THEN message.tool_calls.v ELSE <<>>

\* C20: every reply of the Proposer gives one decision, taken from the
\* first candidate alone: the name and raw arguments of its first tool call
\* when it requests any (later calls and the content are dropped), else a
\* text, the content when there is one.
C20_DecisionFromFirstCandidate ==
  /\ Len(decisions) = Len(replies)
  /\ \A k \in 1..Len(replies) :
       replies[k] # <<>> =>
         IF RequestedToolCalls(replies[k][1]) # <<>>
           THEN decisions[k] = ToolCall(RequestedToolCalls(replies[k][1])[1].name,
                                        RequestedToolCalls(replies[k][1])[1].arguments)
           ELSE /\ decisions[k].d = "Text"
                /\ replies[k][1].content.some =>
                     decisions[k] = Text(replies[k][1].content.v)

\* A candidate with content and two calls gave the first call; a reply of
\* two candidates gave the text of the first.
C20_Witness ==
  /\ Len(replies) = 2
  /\ Len(replies[1]) = 1
  /\ replies[1][1].content.some
  /\ Len(RequestedToolCalls(replies[1][1])) = 2
  /\ decisions[1] = ToolCall(<<"get_constants">>, ArgsEmptyObject)
  /\ Len(replies[2]) = 2
  /\ decisions[2] = Text(<<"A1">>)

(***************************************************************************)
(* The message list of a request                                           *)
(***************************************************************************)

\* C21: every request of the orchestrator to the endpoint carries the
\* system directive first and then exactly the turns of the transcript in
\* append order; the empty per-call prompt adds no turn, in particular no
\* empty user turn.
C21_RequestIsDirectiveThenTranscript ==
  \A k \in 1..Len(requests) :
    /\ requests[k] = <<SystemMsg(ProposerSystemPrompt)>> \o ExpectedTranscript(k)
    /\ \A i \in 1..Len(requests[k]) : requests[k][i] # UserMsg(<<>>)

\* The first request of a run: the directive, an empty user turn, the
\* question.
C21_Witness ==
  /\ Len(requests) >= 1
  /\ requests[1] = <<SystemMsg(ProposerSystemPrompt), UserMsg(<<>>),
                     UserMsg(original_user_prompt)>>

(***************************************************************************)
(* ConversationHistory                                                     *)
(***************************************************************************)

SystemOps == {"set_system", "clear_system"}

\* The turn an appending operation was called with.
TurnOf(op) ==
  CASE op.op = "add_user" -> [role |-> "user", content |-> op.content]
    [] op.op = "add_assistant" -> [role |-> "assistant", content |-> op.content]
    [] op.op = "add_function" ->
         [role |-> "function", name |-> op.name, content |-> op.content]
    [] op.op = "push" -> op.msg

IsAppend(op) == op.op \notin SystemOps

\* The turns appended by the operations, in the order of the calls.
TurnsAppended ==
  [i \in 1..Len(SelectSeq(conv_ops, IsAppend)) |-> TurnOf(SelectSeq(conv_ops, IsAppend)[i])]

\* The directive in force: that of the last set_system, unless a
\* clear_system came after it.
DirectiveInForce ==
  IF \A i \in 1..Len(conv_ops) : conv_ops[i].op \notin SystemOps THEN <<>>
  ELSE IF Last(SelectSeq(conv_ops, LAMBDA o : o.op \in SystemOps)).op = "clear_system"
    THEN <<>>
  ELSE << [role |-> "system",
           content |-> Last(SelectSeq(conv_ops, LAMBDA o : o.op \in SystemOps)).content] >>

\* C22: after any sequence of set_system, clear_system, add_user,
\* add_assistant, add_function and push, len() and as_slice() count and hold
\* the appended turns only, in append order, and as_slice_with_system() is
\* the directive in force, if any, followed by the same turns, whether the
\* directive was set before or after them.
C22_DirectiveApartFromTurns ==
  /\ len(conv) = Len(TurnsAppended)
  /\ as_slice(conv) = TurnsAppended
  /\ as_slice_with_system(conv) = DirectiveInForce \o TurnsAppended

\* A directive set between two turns comes first.
C22_Witness ==
  /\ Len(conv_ops) = 3
  /\ conv_ops[1].op = "add_user"
  /\ conv_ops[2] = [op |-> "set_system", content |-> <<"S2">>]
  /\ conv_ops[3].op = "add_assistant"
  /\ len(conv) = 2
  /\ as_slice_with_system(conv)[1] = SystemMsg(<<"S2">>)

(***************************************************************************)
(* The token-limit field                                                   *)
(***************************************************************************)

\* The identifier has a 4 directly followed by a lower-case o.
Has4o(model) == \E i \in 1..(Len(model) - 1) : model[i] = "4" /\ model[i + 1] = "o"

\* The name of the token-limit field a built request carries, "both" or
\* "none" when it is not exactly one.
LimitField(b) ==
  IF b.req.max_tokens.some /\ b.req.max_completion_tokens.some THEN "both"
  ELSE IF b.req.max_tokens.some THEN "max_tokens"
  ELSE IF b.req.max_completion_tokens.some THEN "max_completion_tokens"
  ELSE "none"

WorkerAnswered == worker.pc = "recv" /\ worker.last.tag = "Ok"

\* What the orchestrator's final_answer is after a first reply that ends the
\* call: a text as it is, a tool call that did not execute as the degraded
\* answer.
EndsAtFirstReply(d) ==
  d.d = "Text" \/ ~is_executed(resolve_and_execute_tool_call(d, WorkerTools))

FinalAnswerAtFirstReply(prompt, d) ==
  IF d.d = "Text" THEN d.text
  ELSE EarlyFailureAnswer(prompt, resolve_and_execute_tool_call(d, WorkerTools))

\* C24: the answer the worker sends for a prompt is the orchestrator's
\* final_answer for that prompt and catalog: a first reply that is a text,
\* or a tool call with an unknown name, unparseable arguments or a failing
\* handler, ends the call with one model call, and the answer is the text,
\* or the degraded early-failure answer.
C24_WorkerAnswersAsOrchestrator ==
  (WorkerAnswered /\ worker.last.replies # <<>>
     /\ EndsAtFirstReply(DecodeResponse(worker.last.replies[1]))) =>
    /\ worker.last.model_calls = 1
    /\ worker.last.answer =
         FinalAnswerAtFirstReply(worker.last.prompt,
                                 DecodeResponse(worker.last.replies[1]))

\* The model asked for "nope": the worker answered with its own text.
C24_Witness ==
  /\ WorkerAnswered
  /\ worker.last.replies =
       << <<AssistantMessage(None, Some(<<ToolCall(<<"nope">>, ArgsEmptyObject)>>))>> >>
  /\ worker.last.answer = <<"<unknown tool request: >", "nope">>
  /\ worker.last.model_calls = 1

\* The prompts answered so far are the first prompts submitted, in order.
AnsweredInOrder ==
  /\ Len(answered) <= Len(submitted)
  /\ \A i \in 1..Len(answered) : answered[i] = submitted[i]

\* An answer is taken off the answer channel.
AnswerTaken == answer_chan # <<>> /\ answer_chan' = Tail(answer_chan)

SubmitEffect ==
  IF app.input = <<>> \/ app.pending
    THEN UNCHANGED <<app, prompt_chan>>
  ELSE /\ app'.last_submitted = app.input
       /\ app'.input = <<>>
       /\ app'.ai_answer = None
       /\ app'.pending
       /\ prompt_chan' = Append(prompt_chan, app.input)

\* C26: submit_prompt with an empty input or while pending changes no field
\* and sends nothing; otherwise last_submitted becomes the input, the input
\* is cleared, ai_answer is none, pending is true and that text is sent once
\* on the prompt channel. Nothing else sends a prompt.
C26_SubmitEffect ==
  /\ [][SubmitPrompt => SubmitEffect]_vars
  /\ [][Len(prompt_chan') > Len(prompt_chan) =>
          ~app.pending /\ app.input # <<>> /\ SubmitEffect]_vars

\* A second prompt typed while the first is pending: submitting it now
\* changes nothing.
C26_Witness ==
  /\ app.pending
  /\ app.input = <<"a">>
  /\ app.last_submitted = <<"a", "a">>
  /\ submitted = << <<"a", "a">> >>
  /\ ENABLED SubmitPrompt

(***************************************************************************)
(* ChatService                                                             *)
(***************************************************************************)

\* The ceiling the documentation of get_response_with_tools names for
\* max_steps = None.
DocumentedDefaultSteps == 10

\* ChatService::get_response_with_tools: max_steps is handed to the
\* orchestrator as it came.
get_response_with_tools(max_steps) == max_steps

\* C27: a call through ChatService::get_response_with_tools with
\* max_steps = None runs the orchestrator with a ceiling of 10 steps.
C27_NoneMeansTenSteps ==
  (pc # "idle" /\ max_loops_arg = get_response_with_tools(None)) =>
    max_loops = DocumentedDefaultSteps

\* A call without max_steps cut off after its fifth round.
C27_Witness ==
  /\ max_loops_arg = get_response_with_tools(None)
  /\ result.tag = "Ok"
  /\ result.truncated
  /\ result.iterations = DefaultMaxLoops
  /\ Len(requests) = DefaultMaxLoops

(***************************************************************************)
(* The key/value store                                                     *)
(***************************************************************************)

\* Whether, after the upserts and deletes ops, path holds data: its last
\* operation is an upsert.
WritesTo(ops, path) == { i \in 1..Len(ops) : ops[i].path = path }

LastWrite(ops, path) ==
  ops[CHOOSE i \in WritesTo(ops, path) : \A j \in WritesTo(ops, path) : j <= i]

Written(ops, path) ==
  WritesTo(ops, path) # {} /\ LastWrite(ops, path).op = "upsert"

ExpectedRead(ops, path) ==
  IF Written(ops, path) THEN [ok |-> TRUE, v |-> LastWrite(ops, path).data]
  ELSE [ok |-> FALSE, err |-> <<"path not found: ">> \o path]

\* The step is an upsert or a delete; LastOp is that operation.
Mutation == Len(db_ops') = Len(db_ops) + 1
LastOp == db_ops'[Len(db_ops')]
AllButLast(ops) == SubSeq(ops, 1, Len(ops) - 1)

\* C28: after any sequence of upserts and deletes a read of a path returns
\* the data of the most recent upsert to it, and fails with a not-found
\* error when the path was never written or was deleted since; there is at
\* most one entry per path; an upsert leaves the entry of every other path
\* as it was.
C28_LastWriteWins ==
  /\ [](\A path \in Paths :
          /\ read_bytes(files, path) = ExpectedRead(db_ops, path)
          /\ Cardinality(RowsAt(files, path)) <= 1)
  /\ []((db_ret.tag = "Ret" /\ db_ret.op = "read_bytes") =>
          db_ret.ret = ExpectedRead(db_ops, db_ret.arg))
  /\ [][(Mutation /\ LastOp.op = "upsert") =>
          \A path \in Paths \ {LastOp.path} :
            RowsAt(files', path) = RowsAt(files, path)]_vars

\* Two upserts to one path, then a read: the second data.
C28_Witness ==
  /\ Len(db_ops) >= 2
  /\ db_ops[1] = [op |-> "upsert", path |-> <<"a">>, data |-> <<1>>]
  /\ db_ops[2] = [op |-> "upsert", path |-> <<"a">>, data |-> <<2, 255>>]
  /\ db_ret.tag = "Ret" /\ db_ret.op = "read_bytes" /\ db_ret.arg = <<"a">>
  /\ db_ret.ret = [ok |-> TRUE, v |-> <<2, 255>>]

\* The paths of a listing.
ListedPaths(entries) == { entries[i].path : i \in 1..Len(entries) }

\* C29: delete(path) returns true exactly when the path existed, and false
\* when it is repeated; it removes that entry and no other; afterwards
\* exists(path) is false and no listing has the path, while every other
\* entry is still there.
C29_DeleteRemovesOnlyThatPath ==
  /\ []((db_ret.tag = "Ret" /\ db_ret.op = "delete") =>
          /\ db_ret.ret.v = Written(AllButLast(db_ops), db_ret.arg)
          /\ ~exists(files, db_ret.arg)
          /\ \A pat \in LikePatterns :
               db_ret.arg \notin ListedPaths(list_files(files, pat)))
  /\ []((db_ret.tag = "Ret" /\ db_ret.op = "exists") =>
          db_ret.ret.v = Written(db_ops, db_ret.arg))
  /\ []((db_ret.tag = "Ret" /\ db_ret.op = "list_files") =>
          ListedPaths(db_ret.ret.v) =
            { path \in Paths : Written(db_ops, path) /\ Like(db_ret.arg, path) })
  /\ [][(Mutation /\ LastOp.op = "delete") =>
          /\ (db_ret.tag = "Ret" /\ db_ret.op = "delete" /\ db_ret.arg = LastOp.path)
               => ~db_ret'.ret.v
          /\ \A path \in Paths \ {LastOp.path} :
               RowsAt(files', path) = RowsAt(files, path)]_vars

\* Two paths written, one deleted: delete said true and the other is there.
C29_Witness ==
  /\ Len(db_ops) = 3
  /\ db_ops[1].op = "upsert" /\ db_ops[1].path = <<"X">>
  /\ db_ops[2].op = "upsert" /\ db_ops[2].path = <<"a">>
  /\ db_ops[3] = [op |-> "delete", path |-> <<"a">>]
  /\ db_ret.tag = "Ret" /\ db_ret.op = "delete" /\ db_ret.arg = <<"a">>
  /\ db_ret.ret = [ok |-> TRUE, v |-> TRUE]
  /\ exists(files, <<"X">>)
  /\ ~exists(files, <<"a">>)

(***************************************************************************)
(* Mode transitions                                                        *)
(***************************************************************************)

\* What a handled key came to: "Exit", the mode returned, "None" or "Err".
Outcome(e) ==
  IF e.out.ret = "Some" THEN e.out.mode.m ELSE e.out.ret

\* Keys that, in the mode they are handled in, are Esc or select a mode:
\* Esc everywhere, q and Enter in the menu.
EscOrSelects(e) ==
  e.key = "Esc" \/ (e.from = "Menu" /\ e.key \in {"q", "Enter"})

\* Esc, and q in the menu, as the claim has them.
EscTransitions(e) ==
  /\ (e.from = "Menu" /\ e.key \in {"Esc", "q"}) => Outcome(e) = "Exit"
  /\ (e.from \in {"OpenAIChat", "RpgGame"} /\ e.key = "Esc") =>
       e.out = KeySome(NewMenu)

\* The main loop after the last key: left on Exit, in the returned mode on a
\* transition, in the mode it was in otherwise.
LoopFollows ==
  ui_log # <<>> =>
    /\ running = (Outcome(Last(ui_log)) # "Exit")
    /\ Outcome(Last(ui_log)) \in {"Menu", "OpenAIChat", "RpgGame"} =>
         current_mode = Last(ui_log).out.mode
    /\ Outcome(Last(ui_log)) = "None" => current_mode.m = Last(ui_log).from

LeavesMode(e) ==
  \/ e.from = "OpenAIChat" /\ e.key \in {"Ctrl-c", "Enter"}
  \/ e.from = "RpgGame" /\ e.key \in {"q", "a", "h", "r"}

C31_RunStartsInRoundOne ==
  (pc = "done" /\ result.tag = "Ok") =>
    /\ result.iterations >= 1
    /\ Len(requests) >= 1
    /\ requests[1] = ProposerMessages(add_user(<<>>, original_user_prompt), <<>>)
    /\ has_logger => (events # <<>> /\ events[1] = EvIterationStart(1))

\* A run with ceiling 0: cut off with iterations = 0 and no Proposer call.
C31_Witness ==
  /\ pc = "done"
  /\ max_loops_arg = Some(0)
  /\ result.tag = "Ok"
  /\ result.truncated
  /\ result.iterations = 0
  /\ requests = <<>>
  /\ has_logger /\ events = <<EvTruncated(0)>>

(***************************************************************************)
(* What the observer is told against what the run holds                    *)
(***************************************************************************)

IsResolvedEvent(e) == e.ev = "Resolved"
IsAppendedEvent(e) == e.ev = "HistoryFunctionAppended"
IsFunctionTurn(m) == m.role = "function"

\* The resolutions of the Resolved events, in delivery order.
ResolutionsReported == 
  [i \in 1..Len(SelectSeq(events, IsResolvedEvent)) |->
     SelectSeq(events, IsResolvedEvent)[i].resolution]

\* The (name, result) pairs of the HistoryFunctionAppended events, each as
\* the turn that holds that name and that result.
TurnsReported ==
  [i \in 1..Len(SelectSeq(events, IsAppendedEvent)) |->
     FunctionMsg(SelectSeq(events, IsAppendedEvent)[i].name,
                 ToJsonString(SelectSeq(events, IsAppendedEvent)[i].result))]

EndedInEarlyFailure ==
  /\ pc = "done" /\ result.tag = "Ok" /\ ~result.truncated
  /\ result.steps # <<>>
  /\ ~is_executed(Last(result.steps))

\* The answer names what went wrong in the resolution.
DescribesFailure(answer, resolution) ==
  CASE resolution.r = "ToolNotFound" -> contains(answer, resolution.requested)
    [] resolution.r = "ArgumentsParseError" ->
         /\ contains(answer, resolution.name)
         /\ contains(answer, resolution.raw)
         /\ contains(answer, resolution.error)
    [] resolution.r = "ExecutionError" ->
         /\ contains(answer, resolution.name)
         /\ contains(answer, resolution.error)
    [] OTHER -> FALSE

\* C33: the final answer of an early-failure run contains the original user
\* request and, for ToolNotFound, the requested name; for
\* ArgumentsParseError, the tool name, the raw argument text and the parse
\* diagnostic; for ExecutionError, the tool name and the handler's error.
C33_EarlyFailureAnswerExplains ==
  EndedInEarlyFailure =>
    /\ contains(result.final_answer, original_user_prompt)
    /\ DescribesFailure(result.final_answer, Last(result.steps))

\* A run ended by a handler that failed.
C33_Witness ==
  /\ EndedInEarlyFailure
  /\ Last(result.steps).r = "ExecutionError"
  /\ contains(result.final_answer, Last(result.steps).error)

(***************************************************************************)
(* The Resolver's order of checks                                          *)
(***************************************************************************)

\* Positions of the catalog entries with the requested name.
EntriesNamed(call) ==
  { i \in 1..Len(call.tools) : call.tools[i].name = call.decision.name }

\* C34: lookup comes before parsing and parsing before execution: the
\* handler runs at most once per decision, and only for a name that matches
\* an entry exactly and arguments that parse, on the parsed value; an
\* unknown name is ToolNotFound whatever the arguments are; of several
\* entries with the requested name the first in catalog order is the one
\* parsed for and executed.
C34_LookupParseExecute ==
  (resolver_call.tag = "Call" /\ IsToolCall(resolver_call)) =>
    /\ Len(resolver_call.calls) <= 1
    /\ resolver_call.calls # <<>> <=>
         (/\ EntriesNamed(resolver_call) # {}
          /\ resolver_call.decision.arguments \in ValidArgTexts)
    /\ resolver_call.calls # <<>> =>
         /\ resolver_call.calls[1].tool \in EntriesNamed(resolver_call)
         /\ \A j \in EntriesNamed(resolver_call) : resolver_call.calls[1].tool <= j
         /\ resolver_call.calls[1].args = FromStr(resolver_call.decision.arguments).v
         /\ resolver_call.calls[1].out =
              execute(resolver_call.tools[resolver_call.calls[1].tool],
                      resolver_call.calls[1].args)
    /\ EntriesNamed(resolver_call) = {} => resolver_call.res.r = "ToolNotFound"
    /\ (/\ EntriesNamed(resolver_call) # {}
        /\ resolver_call.decision.arguments \in InvalidArgTexts) =>
         resolver_call.res.r = "ArgumentsParseError"

\* Two entries named get_constants: the first one ran, with its constants.
C34_Witness ==
  /\ resolver_call.tag = "Call"
  /\ resolver_call.tools = <<build_get_constants_tool(3, 5), build_get_constants_tool(1, 2)>>
  /\ resolver_call.decision = ToolCall(<<"get_constants">>, ArgsEmptyObject)
  /\ Len(resolver_call.calls) = 1
  /\ resolver_call.calls[1].tool = 1
  /\ resolver_call.res =
       Executed(<<"get_constants">>, JObj(<< <<<<"X">>, JNum(3)>>, <<<<"Y">>, JNum(5)>> >>))

(***************************************************************************)
(* The pending flag                                                        *)
(***************************************************************************)

\* Prompts delivered whose answer the host has not taken yet: on the prompt
\* channel, with the worker, or answered and on the answer channel.
Outstanding ==
  Len(prompt_chan) + Len(answer_chan)
    + (IF worker.pc \in {"propose", "second"} THEN 1 ELSE 0)

\* C35: pending is true exactly when one prompt is outstanding, and never
\* more than one is; an answer stored in ai_answer is the worker's answer
\* to last_submitted; pending never stays true forever, also when the
\* prompt could not be sent because the worker is gone.
C35_PendingMeansOutstanding ==
  /\ [](Outstanding <= 1 /\ (app.pending <=> Outstanding = 1))
  /\ [](app.ai_answer.some =>
          /\ answered # <<>> /\ Last(answered) = app.last_submitted
          /\ worker.pc = "recv" /\ worker.last.tag = "Ok"
          /\ worker.last.prompt = app.last_submitted
          /\ worker.last.answer = app.ai_answer.v)
  /\ (app.pending ~> ~app.pending)

\* The worker is gone, the prompt was not sent, the host waits.
C35_Witness ==
  /\ worker.pc = "gone"
  /\ app.pending
  /\ app.last_submitted = <<"a">>
  /\ Outstanding = 0

(***************************************************************************)
(* The rpg tools: rust_test_core/src/openai/tools/rpg.rs                   *)
(***************************************************************************)

MaxGameCalls == 6

\* The "action" argument a call can carry; "dance" is none of the four.
ActionNames == {"attack", "heal", "run", "quit", "dance"}

\* The match of rpg_issue_action on the action string.
CommandOf(action) ==
  IF action = "attack" THEN Some("Attack") ELSE IF action = "heal" THEN Some("Heal")
  ELSE IF action = "run" THEN Some("Run") ELSE IF action = "quit" THEN Some("Quit")
  ELSE None

\* GAME is a lazy_static: Game::new() runs at the first access.
FirstGames == IF game.some THEN {game.v} ELSE NewGames

\* The handler of rpg_list_actions on the locked game.
rpg_list_actions(g) ==
  [actions |-> IF Game_is_over(g) THEN <<"quit">> ELSE <<"attack", "heal", "run", "quit">>]

\* The value rpg_issue_action returns after its command.
IssueValue(cont, snap) == [continued |-> cont, snapshot |-> snap]

\* Mutant of rpg_issue_action_locked: the snapshot is the one before the command.
rpg_issue_action_locked_StaleSnapshot(g, cmd, d) ==
  [game |-> handle_command(g, cmd, d).game,
   ret |-> IssueValue(handle_command(g, cmd, d).cont, Game_snapshot(g))]

\* The part of rpg_issue_action under the lock: handle_command, then
\* snapshot, then the value built from both.
rpg_issue_action_locked(g, cmd, d) ==
  [game |-> handle_command(g, cmd, d).game,
   ret |-> IssueValue(handle_command(g, cmd, d).cont,
                      Game_snapshot(handle_command(g, cmd, d).game))]

\* rpg_issue_action called while no other call is inside it: the whole handler.
IssueAction ==
  /\ rpg_calls < MaxGameCalls
  /\ game_lock = "free"
  /\ \A t \in Threads : callers[t].pc = "idle"
  /\ rpg_calls' = rpg_calls + 1
  /\ \E action \in ActionNames :
       IF ~CommandOf(action).some
       THEN /\ rpg_ret' = [tag |-> "issue", action |-> action,
                           over_before |-> game.some /\ Game_is_over(game.v),
                           value |-> [error |-> "invalid action"]]
            /\ game' = game
       ELSE \E g \in FirstGames, d \in Draws(CommandOf(action).v) :
              /\ game' = Some(rpg_issue_action_locked(g, CommandOf(action).v, d).game)
              /\ rpg_ret' = [tag |-> "issue", action |-> action,
                             over_before |-> Game_is_over(g),
                             value |-> rpg_issue_action_locked(g, CommandOf(action).v, d).ret]
  /\ UNCHANGED <<game_lock, callers, not_rpg>>

\* rpg_list_actions called while no other call holds the lock.
ListActions ==
  /\ game_lock = "free"
  /\ \A t \in Threads : callers[t].pc = "idle"
  /\ \E g \in FirstGames :
       /\ game' = Some(g)
       /\ rpg_ret' = [tag |-> "list", value |-> rpg_list_actions(g)]
  /\ UNCHANGED <<game_lock, callers, rpg_calls, not_rpg>>

RpgSpec == Init /\ [][IssueAction \/ ListActions]_vars

\* C38: once the game is over (player hp <= 0) no later command changes the
\* player's hp or makes is_over false again, and rpg_list_actions offers
\* only quit in that state.
C38_GameOverStaysOver ==
  /\ [][(game.some /\ Game_is_over(game.v))
          => /\ Game_is_over(game'.v)
             /\ game'.v.player.hp = game.v.player.hp]_vars
  /\ [](rpg_ret.tag = "list" /\ Game_is_over(game.v)
          => rpg_ret.value.actions = <<"quit">>)

\* A heal issued when the game was over, after which it is not over.
C38_Witness ==
  /\ rpg_ret.tag = "issue" /\ rpg_ret.action = "heal" /\ rpg_ret.over_before
  /\ ~rpg_ret.value.snapshot.is_over
  /\ rpg_ret.value.snapshot.player.hp > 0

(***************************************************************************)
(* rpg_issue_action called from several threads: the steps of one call     *)
(***************************************************************************)

MaxThreadCalls == 2

\* The thread is between GAME.lock() and the end of the closure, where the
\* guard is dropped.
HoldsGuard(t) == callers[t].pc \in {"locked", "commanded", "snapped"}

\* The call starts: the action string is matched; an unknown one returns
\* the error value without touching GAME.
IssueBegin ==
  /\ rpg_calls < MaxThreadCalls
  /\ rpg_calls' = rpg_calls + 1
  /\ \E t \in Threads, action \in ActionNames :
       /\ callers[t].pc = "idle"
       /\ callers' = [callers EXCEPT ![t] =
            IF CommandOf(action).some
            THEN [IdleCaller EXCEPT !.pc = "wait", !.cmd = CommandOf(action)]
            ELSE [IdleCaller EXCEPT !.ret = Some([error |-> "invalid action"])]]
  /\ UNCHANGED <<game, game_lock, rpg_ret, not_rpg>>

\* GAME.lock().unwrap(): blocks while another thread holds the guard.
IssueLock ==
  /\ game_lock = "free"
  /\ \E t \in Threads :
       /\ callers[t].pc = "wait"
       /\ game_lock' = t
       /\ callers' = [callers EXCEPT ![t].pc = "locked"]
  /\ \E g \in FirstGames : game' = Some(g)
  /\ UNCHANGED <<rpg_calls, rpg_ret, not_rpg>>

\* Mutant of IssueCommand: the guard is dropped once the command is done.
IssueCommand_DropsGuard ==
  /\ \E t \in Threads :
       /\ callers[t].pc = "locked"
       /\ \E d \in Draws(callers[t].cmd.v) :
            /\ game' = Some(handle_command(game.v, callers[t].cmd.v, d).game)
            /\ callers' = [callers EXCEPT
                 ![t].pc = "commanded",
                 ![t].cont = Some(handle_command(game.v, callers[t].cmd.v, d).cont),
                 ![t].applied = game']
  /\ game_lock' = "free"
  /\ UNCHANGED <<rpg_calls, rpg_ret, not_rpg>>

\* game.handle_command(cmd).unwrap_or(true) on the guarded game; applied
\* remembers the game this call's command left.
IssueCommand ==
  /\ \E t \in Threads :
       /\ callers[t].pc = "locked"
       /\ \E d \in Draws(callers[t].cmd.v) :
            /\ game' = Some(handle_command(game.v, callers[t].cmd.v, d).game)
            /\ callers' = [callers EXCEPT
                 ![t].pc = "commanded",
                 ![t].cont = Some(handle_command(game.v, callers[t].cmd.v, d).cont),
                 ![t].applied = game']
  /\ UNCHANGED <<game_lock, rpg_calls, rpg_ret, not_rpg>>

\* game.snapshot()
IssueSnapshot ==
  /\ \E t \in Threads :
       /\ callers[t].pc = "commanded"
       /\ callers' = [callers EXCEPT ![t].pc = "snapped",
                                     ![t].snap = Some(Game_snapshot(game.v))]
  /\ UNCHANGED <<game, game_lock, rpg_calls, rpg_ret, not_rpg>>

\* Ok(json!({continued, snapshot})): the closure ends and the guard is dropped.
IssueReturn ==
  /\ \E t \in Threads :
       /\ callers[t].pc = "snapped"
       /\ callers' = [callers EXCEPT
            ![t].pc = "idle",
            ![t].ret = Some(IssueValue(callers[t].cont.v, callers[t].snap.v))]
       /\ rpg_ret' = [tag |-> "issue", thread |-> t,
                      value |-> IssueValue(callers[t].cont.v, callers[t].snap.v)]
  /\ game_lock' = "free"
  /\ UNCHANGED <<game, rpg_calls, not_rpg>>

RpgThreadsSpec ==
  Init /\ [][IssueBegin \/ IssueLock \/ IssueCommand \/ IssueSnapshot \/ IssueReturn]_vars

\* C39: concurrent rpg_issue_action calls apply their commands one at a
\* time: a thread between its lock and its return holds the guard, only the
\* holder changes the game, and the snapshot a call takes and returns is
\* the game as its own command left it.
C39_CommandAndSnapshotUnderOneLock ==
  /\ [](\A t \in Threads :
          /\ HoldsGuard(t) => game_lock = t
          /\ callers[t].snap.some
               => callers[t].snap.v = Game_snapshot(callers[t].applied.v)
          /\ (callers[t].ret.some /\ callers[t].applied.some)
               => callers[t].ret.v.snapshot = Game_snapshot(callers[t].applied.v))
  /\ [][game' # game => \E t \in Threads :
          /\ game_lock' = t
          /\ callers[t].pc \in {"wait", "locked"}
          /\ \A u \in Threads \ {t} : ~HoldsGuard(u)]_vars

\* One thread has returned the snapshot of its command while the other,
\* which had to wait for the guard, has applied its own.
C39_Witness ==
  \E t, u \in Threads :
    /\ t # u
    /\ callers[t].ret.some /\ callers[t].applied.some
    /\ callers[u].pc = "snapped"
    /\ callers[u].applied # callers[t].applied

(***************************************************************************)
(* The web RPG: rust_test_core/src/services/rpg_service.rs and             *)
(* app_web/src/handlers/rpg.rs                                             *)
(***************************************************************************)

MaxRpgRequests == 3

\* RpgService::new on the game Game::new() made.
RpgService_new(g) == [game |-> Some(g), snapshot |-> Some(Game_snapshot(g))]

\* serde's Serialize of RpgService: the game field is #[serde(skip)].
SerializeService(service) == [snapshot |-> service.snapshot]

\* serde's Deserialize of RpgService: a skipped field gets its Default,
\* which for Option<Game> is None.
DeserializeService(stored) == [game |-> None, snapshot |-> stored.snapshot]

\* session.get(RPG_SESSION_KEY).await.unwrap_or_default().unwrap_or_else(RpgService::new)
LoadedServices ==
  IF rpg_session.some THEN {DeserializeService(rpg_session.v)}
  ELSE {RpgService_new(g) : g \in NewGames}

\* RpgService::execute_command: the service after the call and what it returns.
execute_command(service, cmd, d) ==
  IF service.game.some
  THEN [tag |-> "Ok",
        service |-> [game |-> Some(handle_command(service.game.v, cmd, d).game),
                     snapshot |-> Some(Game_snapshot(handle_command(service.game.v, cmd, d).game))],
        snapshot |-> Game_snapshot(handle_command(service.game.v, cmd, d).game)]
  ELSE [tag |-> "Err", service |-> service, error |-> "Game not initialized"]

\* RpgService::snapshot; fresh is the game of its last arm.
RpgService_snapshot(service, fresh) ==
  IF service.snapshot.some THEN service.snapshot.v
  ELSE IF service.game.some THEN Game_snapshot(service.game.v)
  ELSE Game_snapshot(fresh)

\* RpgService::reset with the game Game::new() made.
RpgService_reset(service, g) == [game |-> Some(g), snapshot |-> Some(Game_snapshot(g))]

\* The response of rpg_action after execute_command, and the session value
\* it leaves.  The body of a 200 is built from the snapshot.
ActionOutcome(action, executed) ==
  IF executed.tag = "Ok"
  THEN [session |-> Some(SerializeService(executed.service)),
        reply |-> [tag |-> "action", action |-> action, status |-> 200,
                   snapshot |-> executed.snapshot]]
  ELSE [session |-> rpg_session,
        reply |-> [tag |-> "action", action |-> action, status |-> 500,
                   error |-> executed.error]]

\* POST /api/rpg/action
RpgActionRequest ==
  /\ rpg_reqs < MaxRpgRequests
  /\ rpg_reqs' = rpg_reqs + 1
  /\ \E action \in ActionNames, service \in LoadedServices :
       IF ~CommandOf(action).some
       THEN /\ rpg_reply' = [tag |-> "action", action |-> action, status |-> 400,
                             error |-> "Invalid action"]
            /\ rpg_session' = rpg_session
       ELSE \E d \in Draws(CommandOf(action).v) :
              /\ rpg_session' =
                   ActionOutcome(action, execute_command(service, CommandOf(action).v, d)).session
              /\ rpg_reply' =
                   ActionOutcome(action, execute_command(service, CommandOf(action).v, d)).reply
  /\ UNCHANGED not_webrpg

\* GET /api/rpg/state
RpgStateRequest ==
  /\ rpg_reqs < MaxRpgRequests
  /\ rpg_reqs' = rpg_reqs + 1
  /\ \E service \in LoadedServices, fresh \in NewGames :
       rpg_reply' = [tag |-> "state", status |-> 200,
                     snapshot |-> RpgService_snapshot(service, fresh)]
  /\ UNCHANGED <<rpg_session, not_webrpg>>

\* POST /api/rpg/reset
RpgResetRequest ==
  /\ rpg_reqs < MaxRpgRequests
  /\ rpg_reqs' = rpg_reqs + 1
  /\ \E first \in NewGames, g \in NewGames :
       rpg_session' = Some(SerializeService(RpgService_reset(RpgService_new(first), g)))
  /\ rpg_reply' = [tag |-> "reset", status |-> 204]
  /\ UNCHANGED not_webrpg

WebRpgSpec == Init /\ [][RpgActionRequest \/ RpgStateRequest \/ RpgResetRequest]_vars

\* The game a stored snapshot describes.
GameOf(snap) ==
  [player |-> snap.player, enemy |-> snap.enemy, turn |-> snap.turn,
   battle_count |-> snap.battle_count]

\* The request is a POST /api/rpg/action with one of the four actions.
IsActionStep ==
  /\ rpg_reqs' = rpg_reqs + 1
  /\ rpg_reply'.tag = "action"
  /\ CommandOf(rpg_reply'.action).some

\* C36: a POST /api/rpg/action with a valid action answers 200 and stores
\* its result; when the session already holds a game, the result is that
\* game after the command, and when it holds none, a new game after it.
C36_RequestsShareTheGame ==
  [][IsActionStep =>
       /\ rpg_reply'.status = 200
       /\ rpg_session'.some
       /\ rpg_session'.v.snapshot = Some(rpg_reply'.snapshot)
       /\ \E g \in (IF rpg_session.some THEN {GameOf(rpg_session.v.snapshot.v)} ELSE NewGames),
             d \in Draws(CommandOf(rpg_reply'.action).v) :
             rpg_reply'.snapshot =
               Game_snapshot(handle_command(g, CommandOf(rpg_reply'.action).v, d).game)]_vars

\* The second action of a session was answered 500 and the stored game is
\* still the one the first action left.
C36_Witness ==
  /\ rpg_reqs = 2
  /\ rpg_reply.tag = "action" /\ rpg_reply.status = 500
  /\ rpg_session.some

(***************************************************************************)
(* The web chat: app_web/src/handlers/chat.rs                              *)
(***************************************************************************)

MaxChatPosts == 12

\* if history.len() > 10
HistoryCap == 10

\* Mutant of Limited: the oldest pairs are kept.
Limited_KeepsOldest(pairs) ==
  IF Len(pairs) > HistoryCap THEN SubSeq(pairs, 1, HistoryCap) ELSE pairs

\* The limit of chat_api: skip(history.len() - 10) when there are more than 10.
Limited(pairs) ==
  IF Len(pairs) > HistoryCap
  THEN SubSeq(pairs, Len(pairs) - HistoryCap + 1, Len(pairs))
  ELSE pairs

\* session.get(CHAT_HISTORY_KEY).await.unwrap_or_default().unwrap_or_default()
StoredHistory == IF chat_session.some THEN chat_session.v ELSE <<>>

\* The n-th POST of the session carries the prompt n, and the model's
\* answer to it, when there is one, names it.
ResponseTo(prompt) == [answer_to |-> prompt]

\* POST /api/chat, get_response returns Ok(response).
ChatAnswers ==
  /\ chat_reqs.posts < MaxChatPosts
  /\ chat_reqs' = [posts |-> chat_reqs.posts + 1,
                   ok |-> Append(chat_reqs.ok,
                                 <<chat_reqs.posts + 1, ResponseTo(chat_reqs.posts + 1)>>)]
  /\ chat_session' = Some(Limited(Append(StoredHistory,
                         <<chat_reqs.posts + 1, ResponseTo(chat_reqs.posts + 1)>>)))
  /\ chat_reply' = [tag |-> "chat", status |-> 200, prompt |-> chat_reqs.posts + 1,
                    response |-> ResponseTo(chat_reqs.posts + 1)]
  /\ UNCHANGED not_webchat

\* POST /api/chat, get_response returns Err(e).
ChatFails ==
  /\ chat_reqs.posts < MaxChatPosts
  /\ chat_reqs' = [chat_reqs EXCEPT !.posts = @ + 1]
  /\ chat_reply' = [tag |-> "chat", status |-> 500, prompt |-> chat_reqs.posts + 1]
  /\ UNCHANGED <<chat_session, not_webchat>>

\* GET /api/chat/history
ChatHistory ==
  /\ chat_reply' = [tag |-> "history", status |-> 200, history |-> StoredHistory]
  /\ UNCHANGED <<chat_session, chat_reqs, not_webchat>>

\* DELETE /api/chat/history
ClearChatHistory ==
  /\ chat_session' = None
  /\ chat_reqs' = [chat_reqs EXCEPT !.ok = <<>>]
  /\ chat_reply' = [tag |-> "clear", status |-> 204]
  /\ UNCHANGED not_webchat

WebChatSpec ==
  Init /\ [][ChatAnswers \/ ChatFails \/ ChatHistory \/ ClearChatHistory]_vars

\* The last n elements of a sequence.
LastOf(seq, n) == IF Len(seq) > n THEN SubSeq(seq, Len(seq) - n + 1, Len(seq)) ELSE seq

\* C37: the stored chat history holds at most 10 pairs, the most recent
\* ones answered since the last clear, in request order; a POST whose model
\* call fails leaves it unchanged; after DELETE it is empty.
C37_HistoryKeepsLastTen ==
  /\ [](/\ Len(StoredHistory) <= 10
        /\ StoredHistory = LastOf(chat_reqs.ok, 10)
        /\ \A i \in 1..Len(StoredHistory) :
             /\ StoredHistory[i][2] = ResponseTo(StoredHistory[i][1])
             /\ i > 1 => StoredHistory[i - 1][1] < StoredHistory[i][1]
        /\ chat_reply.tag = "clear" => StoredHistory = <<>>
        /\ chat_reply.tag = "history" => chat_reply.history = StoredHistory)
  /\ [][(chat_reply'.tag = "chat" /\ chat_reply'.status = 500)
          => chat_session' = chat_session]_vars

\* Eleven prompts were answered, one before them failed, and the oldest
\* answered pair has left the stored history.
C37_Witness ==
  /\ Len(chat_reqs.ok) = 11
  /\ chat_reqs.posts = 12
  /\ Len(StoredHistory) = 10
  /\ StoredHistory[1][1] # chat_reqs.ok[1][1]
====
